---- MODULE Spec2Model ----
(***************************************************************************)
(* Reposignal GitHub bot: the comment-command handlers, the event nudges   *)
(* and the delayed cleanup queue with its worker.                          *)
(*                                                                         *)
(* Comment bodies are sequences of strings, one string per character; the  *)
(* command parsers are the source's regular expressions evaluated on them. *)
(* Handlers and the job processor advance one external call (one await)    *)
(* per step; every external call may fail while the failure budget lasts.  *)
(***************************************************************************)
EXTENDS Integers, Sequences, FiniteSets, TLC

(***************************************************************************)
(* Bounds of the model                                                     *)
(***************************************************************************)
\* webhook events delivered in one run
MaxEvents == 1
\* external calls that may fail in one run (every failure is transient)
MaxFailures == 3
\* rate commands delivered in one run of the rate-command specification
MaxRates == 2

(***************************************************************************)
(* Characters and words                                                    *)
(***************************************************************************)
LowerAlpha ==
  <<"a","b","c","d","e","f","g","h","i","j","k","l","m",
    "n","o","p","q","r","s","t","u","v","w","x","y","z">>
UpperAlpha ==
  <<"A","B","C","D","E","F","G","H","I","J","K","L","M",
    "N","O","P","Q","R","S","T","U","V","W","X","Y","Z">>

\* String.prototype.toLowerCase on one character
ToLower(c) ==
  IF \E i \in DOMAIN UpperAlpha : UpperAlpha[i] = c
  THEN LowerAlpha[CHOOSE i \in DOMAIN UpperAlpha : UpperAlpha[i] = c]
  ELSE c

\* the regular-expression class \s of ECMAScript: the white space and line
\* terminator code points TAB, LF, VT, FF, CR, SP, U+00A0, U+1680,
\* U+2000..U+200A, U+2028, U+2029, U+202F, U+205F, U+3000 and U+FEFF. The
\* first row holds the characters themselves (VT, U+00A0, U+1680 and U+FEFF
\* after the form feed); a code point from U+2000 on cannot stand in a string
\* of this module and is written by its name
IsSpace(c) ==
  c \in {" ", "\t", "\n", "\r", "\f", "", " ", " ", "﻿",
         "U+2000", "U+2001", "U+2002", "U+2003", "U+2004", "U+2005",
         "U+2006", "U+2007", "U+2008", "U+2009", "U+200A", "U+2028",
         "U+2029", "U+202F", "U+205F", "U+3000"}

\* the regular-expression class [1-5] and parseInt(_, 10) on its match
RatingDigits == <<"1", "2", "3", "4", "5">>
IsRatingDigit(c) == \E i \in DOMAIN RatingDigits : RatingDigits[i] = c
ParseInt(c) == CHOOSE i \in DOMAIN RatingDigits : RatingDigits[i] = c

\* the regular-expression class \d
IsDigit(c) == c \in {"0", "1", "2", "3", "4", "5", "6", "7", "8", "9"}

W_trigger == <<"/","r","e","p","o","s","i","g","n","a","l">>
W_rate == <<"r","a","t","e">>
W_difficulty == <<"d","i","f","f","i","c","u","l","t","y">>
W_responsiveness == <<"r","e","s","p","o","n","s","i","v","e","n","e","s","s">>
W_type == <<"t","y","p","e">>
W_hide == <<"h","i","d","e">>
W_docs == <<"d","o","c","s">>
W_bug == <<"b","u","g">>
W_feature == <<"f","e","a","t","u","r","e">>
W_refactor == <<"r","e","f","a","c","t","o","r">>
W_test == <<"t","e","s","t">>
W_infra == <<"i","n","f","r","a">>
W_tags == <<"t","a","g","s">>
W_thanks == <<"t","h","a","n","k","s">>
SP == <<" ">>
NL == <<"\n">>

\* the alternation (docs|bug|feature|refactor|test|infra), in source order
IssueTypes == <<W_docs, W_bug, W_feature, W_refactor, W_test, W_infra>>

(***************************************************************************)
(* Regular-expression primitives                                           *)
(***************************************************************************)
\* the literal w occurs in s at index i, letter case respected
LitAt(s, i, w) ==
  /\ i >= 1
  /\ i + Len(w) - 1 <= Len(s)
  /\ \A k \in 1..Len(w) : s[i + k - 1] = w[k]

\* the literal w occurs in s at index i under the i flag
LitAtCI(s, i, w) ==
  /\ i >= 1
  /\ i + Len(w) - 1 <= Len(s)
  /\ \A k \in 1..Len(w) : ToLower(s[i + k - 1]) = ToLower(w[k])

\* String.prototype.includes
Includes(s, w) == \E i \in 1..Len(s) : LitAt(s, i, w)

\* index just after the longest run of \s starting at i (i itself when none)
RECURSIVE SpaceEnd(_, _)
SpaceEnd(s, i) ==
  IF i <= Len(s) /\ IsSpace(s[i]) THEN SpaceEnd(s, i + 1) ELSE i

\* words[1] \s+ words[2] \s+ ... matched at i under the i flag:
\* the index just after the last word, or 0 when there is no match at i
RECURSIVE WordsEnd(_, _, _)
WordsEnd(s, i, words) ==
  IF ~LitAtCI(s, i, Head(words)) THEN 0
  ELSE LET j == i + Len(Head(words)) IN
       IF Len(words) = 1 THEN j
       ELSE LET k == SpaceEnd(s, j) IN
            IF k = j THEN 0 ELSE WordsEnd(s, k, Tail(words))

\* words \s+ ([1-5]) matched at i: the index of the captured digit, or 0
RatingAt(s, i, words) ==
  LET e == WordsEnd(s, i, words) IN
  IF e = 0 THEN 0
  ELSE LET k == SpaceEnd(s, e) IN
       IF k > e /\ k <= Len(s) /\ IsRatingDigit(s[k]) THEN k ELSE 0

\* body.match(/words\s+([1-5])/i): parseInt of the capture of the leftmost
\* match, or Null
Null == 0
MatchRating(s, words) ==
  IF \E i \in 1..Len(s) : RatingAt(s, i, words) # 0
  THEN LET i == CHOOSE i \in 1..Len(s) :
                  /\ RatingAt(s, i, words) # 0
                  /\ \A j \in 1..(i - 1) : RatingAt(s, j, words) = 0
       IN ParseInt(s[RatingAt(s, i, words)])
  ELSE Null

(***************************************************************************)
(* Command grammar                                                         *)
(***************************************************************************)
\* /\/reposignal\s+difficulty\s+([1-5])/i
parseDifficultyCommand(body) == MatchRating(body, <<W_trigger, W_difficulty>>)

\* words \s+ (docs|bug|...) matched at i: the first alternative that matches
NoType == <<>>
TypeAt(s, i) ==
  LET e == WordsEnd(s, i, <<W_trigger, W_type>>) IN
  IF e = 0 THEN NoType
  ELSE LET k == SpaceEnd(s, e) IN
       IF k > e /\ \E t \in DOMAIN IssueTypes : LitAtCI(s, k, IssueTypes[t])
       THEN LET t == CHOOSE t \in DOMAIN IssueTypes :
                       /\ LitAtCI(s, k, IssueTypes[t])
                       /\ \A u \in 1..(t - 1) : ~LitAtCI(s, k, IssueTypes[u])
            IN [x \in 1..Len(IssueTypes[t]) |-> ToLower(s[k + x - 1])]
       ELSE NoType

\* /\/reposignal\s+type\s+(docs|bug|feature|refactor|test|infra)/i,
\* match[1].toLowerCase()
parseTypeCommand(body) ==
  IF \E i \in 1..Len(body) : TypeAt(body, i) # NoType
  THEN LET i == CHOOSE i \in 1..Len(body) :
                  /\ TypeAt(body, i) # NoType
                  /\ \A j \in 1..(i - 1) : TypeAt(body, j) = NoType
       IN TypeAt(body, i)
  ELSE NoType

\* /\/reposignal\s+hide/i.test(body)
isHideCommand(body) ==
  \E i \in 1..Len(body) : WordsEnd(body, i, <<W_trigger, W_hide>>) # 0

\* /\/reposignal\s+rate\s+difficulty\s+([1-5])/i
parseDifficultyRating(body) ==
  MatchRating(body, <<W_trigger, W_rate, W_difficulty>>)

\* variant: the responsiveness parser is a copy of the difficulty parser
parseResponsivenessRating_copy(body) == parseDifficultyRating(body)

\* /\/reposignal\s+rate\s+responsiveness\s+([1-5])/i
parseResponsivenessRating(body) ==
  MatchRating(body, <<W_trigger, W_rate, W_responsiveness>>)

\* variant: the trigger is looked for without its slash
HasTrigger_noSlash(body) == Includes(body, Tail(W_trigger))

\* comment.body.includes('/reposignal')
HasTrigger(body) == Includes(body, W_trigger)

\* comment.body.includes('/reposignal rate')
HasRateTrigger(body) == Includes(body, W_trigger \o SP \o W_rate)


\* variant: a comment with a hide command goes to the maintainer handler
CommentRoute_hideFirst(body) ==
  IF ~HasTrigger(body) THEN "ignore"
  ELSE IF isHideCommand(body) THEN "maintainer"
  ELSE IF HasRateTrigger(body) THEN "contributor"
  ELSE "maintainer"

\* routing of registerCommentHandlers
CommentRoute(body) ==
  IF ~HasTrigger(body) THEN "ignore"
  ELSE IF HasRateTrigger(body) THEN "contributor"
  ELSE "maintainer"

(***************************************************************************)
(* Linked issues of a merged pull request                                  *)
(***************************************************************************)
W_close == <<"c","l","o","s","e">>
W_fix == <<"f","i","x">>
W_resolve == <<"r","e","s","o","l","v","e">>

\* (close[sd]?|fix(e[sd])?|resolve[sd]?) matched at i: the index just after
\* the keyword, or 0
KeywordEnd(s, i) ==
  LET sd(j) == j <= Len(s) /\ ToLower(s[j]) \in {"s", "d"} IN
  IF LitAtCI(s, i, W_close)
  THEN (IF sd(i + 5) THEN i + 6 ELSE i + 5)
  ELSE IF LitAtCI(s, i, W_fix)
  THEN (IF i + 3 <= Len(s) /\ ToLower(s[i + 3]) = "e" /\ sd(i + 4)
        THEN i + 5 ELSE i + 3)
  ELSE IF LitAtCI(s, i, W_resolve)
  THEN (IF sd(i + 7) THEN i + 8 ELSE i + 7)
  ELSE 0

\* index just after the longest run of \d starting at i
RECURSIVE DigitsEnd(_, _)
DigitsEnd(s, i) ==
  IF i <= Len(s) /\ IsDigit(s[i]) THEN DigitsEnd(s, i + 1) ELSE i

\* parseInt of the digits s[i..j-1]
DigitValue(c) ==
  CHOOSE n \in 0..9 : <<"0","1","2","3","4","5","6","7","8","9">>[n + 1] = c
RECURSIVE ParseDigits(_, _, _)
ParseDigits(s, i, j) ==
  IF i >= j THEN 0
  ELSE ParseDigits(s, i, j - 1) * 10 + DigitValue(s[j - 1])

\* keyword \s+ # \d+ matched at i: <<index after the match, issue number>>,
\* or <<0, 0>>
LinkAt(s, i) ==
  LET e == KeywordEnd(s, i) IN
  IF e = 0 THEN <<0, 0>>
  ELSE LET k == SpaceEnd(s, e) IN
       IF k > e /\ k <= Len(s) /\ s[k] = "#" /\ DigitsEnd(s, k + 1) > k + 1
       THEN <<DigitsEnd(s, k + 1), ParseDigits(s, k + 1, DigitsEnd(s, k + 1))>>
       ELSE <<0, 0>>

\* pull_request.body?.match(/(close[sd]?|fix(e[sd])?|resolve[sd]?)\s+#(\d+)/gi)
\* mapped through parseInt(match.match(/#(\d+)/)[1]); <<>> when null
RECURSIVE LinkedFrom(_, _)
LinkedFrom(s, i) ==
  IF i > Len(s) THEN <<>>
  ELSE IF LinkAt(s, i)[1] # 0
       THEN <<LinkAt(s, i)[2]>> \o LinkedFrom(s, LinkAt(s, i)[1])
       ELSE LinkedFrom(s, i + 1)
linkedIssues(body) == LinkedFrom(body, 1)

(***************************************************************************)
(* Inputs                                                                  *)
(***************************************************************************)
B_plain == W_thanks \o SP \o Tail(W_trigger)
B_diff3 == W_trigger \o SP \o W_difficulty \o SP \o <<"3">>
B_diffType ==
  W_trigger \o SP \o W_difficulty \o SP \o <<"3">> \o NL \o
  W_trigger \o SP \o W_type \o SP \o W_bug
B_hide == W_trigger \o SP \o W_hide
B_tags == W_trigger \o SP \o W_tags
B_rate4 == W_trigger \o SP \o W_rate \o SP \o W_difficulty \o SP \o <<"4">>
B_rateBoth ==
  W_trigger \o SP \o W_rate \o SP \o W_difficulty \o SP \o <<"2">> \o NL \o
  W_trigger \o SP \o W_rate \o SP \o W_responsiveness \o SP \o <<"5">>
B_rateNone == W_trigger \o SP \o W_rate
B_rateHide ==
  W_trigger \o SP \o W_rate \o SP \o W_difficulty \o SP \o <<"4">> \o NL \o
  W_trigger \o SP \o W_hide

\* comment bodies delivered with issue_comment.created
Bodies ==
  {B_plain, B_diff3, B_diffType, B_hide, B_tags, B_rate4, B_rateBoth, B_rateNone,
   B_rateHide}

\* pull-request descriptions delivered with pull_request.closed (<<>>: null)
P_fixes == <<"F","i","x","e","s"," ","#","7">>
P_closed == <<"c","l","o","s","e","d","\f","#","3">>
PullBodies == {<<>>, P_fixes, P_closed}

Repos == {900}
IssueNumbers == {7}
UserIds == {1, 2}
InstallationIds == {55}

\* platform-assigned ids of the issue and of the pull request with number n
IssueId(n) == 1000 + n
PullId(n) == 2000 + n

\* values of permission.permission
PermLevels == {"none", "read", "triage", "write", "maintain", "admin"}


(***************************************************************************)
(* Program constants                                                       *)
(***************************************************************************)
\* scheduleCleanup(..., 300000) of the issue-opened nudge
IssueNudgeDelay == 300000
\* scheduleCleanup(..., 3600000) of the merge-feedback nudge
FeedbackNudgeDelay == 3600000
\* scheduleCleanup(..., 60000) of a command and of its confirmation
CommandDelay == 60000
\* job options: attempts
Attempts == 3
\* job options: backoff.delay
BackoffDelay == 5000
\* worker options: concurrency
Concurrency == 5

(***************************************************************************)
(* Logger and backend client                                               *)
(***************************************************************************)
NoActor == 0

LogEntry(actorType, action, entityType, entityId, context) ==
  [actorType |-> actorType, actorGithubId |-> NoActor, actorUsername |-> NoActor,
   action |-> action, entityType |-> entityType, entityId |-> entityId,
   context |-> context]

logSystem(action, entityType, entityId, context) ==
  LogEntry("system", action, entityType, entityId, context)
logBot(action, entityType, entityId, context) ==
  LogEntry("bot", action, entityType, entityId, context)
logContributor(action, entityType, entityId, context) ==
  LogEntry("contributor", action, entityType, entityId, context)

\* the JSON body BackendAPI.writeLog posts to /bot/logs
writeLog(log) ==
  [action |-> log.action, entityType |-> log.entityType,
   entityId |-> log.entityId, context |-> log.context]

\* one external call of a handler, as recorded in its trace
Call(op, arg, ok) == [op |-> op, arg |-> arg, ok |-> ok]
LogCall(log, ok) == Call("writeLog", [entry |-> log, sent |-> writeLog(log)], ok)

(***************************************************************************)
(* State                                                                   *)
(***************************************************************************)
VARIABLES
  handlers,   \* one handler invocation per delivered webhook event
  comments,   \* the comments of the platform, indexed by comment id
  jobs,       \* the jobs of the reposignal-cleanup queue, indexed by job id
  failures    \* external calls that have failed so far

vars == <<handlers, comments, jobs, failures>>

Events == DOMAIN handlers

NoPull == [found |-> FALSE, merged |-> FALSE, user |-> 0, id |-> 0]

Idle ==
  [pc |-> "idle", kind |-> "none", body |-> <<>>, repo |-> 0, number |-> 0,
   sender |-> 0, installation |-> 0, commentId |-> 0, merged |-> FALSE,
   headRepo |-> FALSE, perm |-> "unknown", fetch |-> "none",
   pr |-> NoPull,
   difficulty |-> Null, issueType |-> NoType, shouldHide |-> FALSE,
   difficultyRating |-> Null, responsivenessRating |-> Null,
   posted |-> 0, idx |-> 1, trace |-> <<>>]

Init ==
  /\ handlers = [e \in 1..MaxEvents |-> Idle]
  /\ comments = <<>>
  /\ jobs = <<>>
  /\ failures = 0

\* an external call may fail while the failure budget lasts
MayFail(ok) == ok \/ failures < MaxFailures
Count(ok) == IF ok THEN failures ELSE failures + 1

\* events are delivered in order; a handler runs once per event
Deliverable(e) ==
  /\ handlers[e].pc = "idle"
  /\ IF e = 1 THEN TRUE ELSE handlers[e - 1].pc # "idle"

\* variant: the error is swallowed and the handler carries on
Caught_resume(h, call) ==
  [h EXCEPT !.pc = IF h.pc = "mc_classify" THEN "mc_post"
                   ELSE IF h.pc = "cf_submit" THEN "cf_log"
                   ELSE "done",
            !.trace = Append(@, call)]

\* the catch block of a handler: operational log only, then return
Caught(h, call) == [h EXCEPT !.pc = "done", !.trace = Append(@, call)]
\* a successful await: record the call and continue at pc
Awaited(h, call, pc) == [h EXCEPT !.pc = pc, !.trace = Append(@, call)]

Comment(author, kind, body, number) ==
  [author |-> author, kind |-> kind, body |-> body, number |-> number,
   live |-> TRUE]

(***************************************************************************)
(* Cleanup queue: scheduleCleanup                                          *)
(***************************************************************************)
CleanupJob(h, commentId) ==
  [owner |-> h.repo, repo |-> h.repo, commentId |-> commentId,
   issueNumber |-> h.number, installationId |-> h.installation]

\* cleanupQueue.add('delete-comment', job, {delay, attempts: 3, backoff})
QueueAdd(data, delayMs, e) ==
  Append(jobs,
    [name |-> "delete-comment", data |-> data, delay |-> delayMs,
     attempts |-> Attempts, backoff |-> BackoffDelay,
     state |-> "delayed", remaining |-> delayMs, attemptsMade |-> 0,
     executors |-> 0, step |-> "none", authCalls |-> 0, deleteCalls |-> 0,
     deleted |-> 0, logged |-> 0, waits |-> <<>>, event |-> e,
     age |-> 0, starts |-> <<>>])

\* the queue after the jobs of a sequence of scheduleCleanup calls are added
RECURSIVE QueueOf(_)
QueueOf(adds) ==
  IF adds = <<>> THEN <<>>
  ELSE LET n == Len(adds)
           q == QueueOf(SubSeq(adds, 1, n - 1)) IN
       Append(q,
         [name |-> "delete-comment", data |-> adds[n].data, delay |-> adds[n].delay,
          attempts |-> Attempts, backoff |-> BackoffDelay,
          state |-> "delayed", remaining |-> adds[n].delay, attemptsMade |-> 0,
          executors |-> 0, step |-> "none", authCalls |-> 0,
          deleteCalls |-> 0, deleted |-> 0, logged |-> 0, waits |-> <<>>, event |-> n,
          age |-> 0, starts |-> <<>>])

\* await scheduleCleanup(job, delayMs) in handler e, continuing at pc
Schedule(e, ok, commentId, delayMs, pc) ==
  LET h == handlers[e]
      data == CleanupJob(h, commentId)
      call == Call("scheduleCleanup", [data |-> data, delay |-> delayMs], ok) IN
  /\ MayFail(ok)
  /\ failures' = Count(ok)
  /\ jobs' = IF ok THEN QueueAdd(data, delayMs, e) ELSE jobs
  /\ handlers' = [handlers EXCEPT ![e] =
                    IF ok THEN Awaited(h, call, pc) ELSE Caught(h, call)]
  /\ UNCHANGED comments

\* await context.octokit.issues.createComment(...) in handler e
CreateComment(e, ok, kind, body, pc) ==
  LET h == handlers[e]
      id == Len(comments) + 1
      call == Call("createComment",
                   [issue_number |-> h.number, body |-> body,
                    id |-> IF ok THEN id ELSE 0], ok) IN
  /\ MayFail(ok)
  /\ failures' = Count(ok)
  /\ comments' = IF ok THEN Append(comments, Comment("bot", kind, body, h.number))
                 ELSE comments
  /\ handlers' = [handlers EXCEPT ![e] =
                    IF ok THEN [Awaited(h, call, pc) EXCEPT !.posted = id]
                    ELSE Caught(h, call)]
  /\ UNCHANGED jobs

\* await logger.log...(...) in handler e
WriteLog(e, ok, log, pc) ==
  LET h == handlers[e] IN
  /\ MayFail(ok)
  /\ failures' = Count(ok)
  /\ handlers' = [handlers EXCEPT ![e] =
                    IF ok THEN Awaited(h, LogCall(log, ok), pc)
                    ELSE Caught(h, LogCall(log, ok))]
  /\ UNCHANGED <<comments, jobs>>

(***************************************************************************)
(* issues.opened                                                           *)
(***************************************************************************)
\* the body of the issue-opened nudge, by its kind
NudgeBody(kind) == [kind |-> kind]

IssueOpened(e, repo, number, inst) ==
  /\ Deliverable(e)
  /\ handlers' = [handlers EXCEPT ![e] =
       [Idle EXCEPT !.pc = "io_post", !.kind = "issues.opened", !.repo = repo,
                    !.number = number, !.installation = inst]]
  /\ UNCHANGED <<comments, jobs, failures>>

IssuePost(e, ok) ==
  /\ handlers[e].pc = "io_post"
  /\ CreateComment(e, ok, "issue_nudge", NudgeBody("issue_nudge"), "io_log")

IssueLog(e, ok) ==
  /\ handlers[e].pc = "io_log"
  /\ WriteLog(e, ok,
       logBot("issue_nudge_posted", "issue",
              <<"issue", IssueId(handlers[e].number)>>,
              [issueNumber |-> handlers[e].number]),
       "io_sched")

IssueSchedule(e, ok) ==
  /\ handlers[e].pc = "io_sched"
  /\ Schedule(e, ok, handlers[e].posted, IssueNudgeDelay, "done")


(***************************************************************************)
(* pull_request.closed                                                     *)
(***************************************************************************)
\* variant: the merged flag is not looked at
PullClosed_anyClose(e, repo, number, inst, merged, body, headRepo) ==
  /\ Deliverable(e)
  /\ handlers' = [handlers EXCEPT ![e] =
       [Idle EXCEPT !.pc = "pr_post",
                    !.kind = "pull_request.closed", !.repo = repo,
                    !.number = number, !.installation = inst,
                    !.merged = merged, !.body = body, !.headRepo = headRepo]]
  /\ UNCHANGED <<comments, jobs, failures>>

PullClosed(e, repo, number, inst, merged, body, headRepo) ==
  /\ Deliverable(e)
  /\ handlers' = [handlers EXCEPT ![e] =
       [Idle EXCEPT !.pc = IF merged THEN "pr_post" ELSE "done",
                    !.kind = "pull_request.closed", !.repo = repo,
                    !.number = number, !.installation = inst,
                    !.merged = merged, !.body = body, !.headRepo = headRepo]]
  /\ UNCHANGED <<comments, jobs, failures>>

PullPost(e, ok) ==
  /\ handlers[e].pc = "pr_post"
  /\ CreateComment(e, ok, "feedback_nudge", NudgeBody("feedback_nudge"), "pr_log")

PullLog(e, ok) ==
  /\ handlers[e].pc = "pr_log"
  /\ WriteLog(e, ok,
       logBot("feedback_prompted", "repo", <<"repo", handlers[e].repo>>,
              [prNumber |-> handlers[e].number]),
       "pr_sched")

\* if (pull_request.head.repo) { linkedIssues = body?.match(...) }
Linked(h) == IF h.headRepo THEN linkedIssues(h.body) ELSE <<>>

\* after the cleanup is scheduled the handler turns to the linked issues
PullSchedule(e, ok) ==
  /\ handlers[e].pc = "pr_sched"
  /\ Schedule(e, ok, handlers[e].posted, FeedbackNudgeDelay,
              IF Linked(handlers[e]) # <<>> THEN "pr_delete" ELSE "done")

\* await backendAPI.deleteIssue(...) for the current linked issue
PullDeleteIssue(e, ok) ==
  LET h == handlers[e]
      call == Call("deleteIssue",
                   [githubRepoId |-> h.repo, githubIssueId |-> Linked(h)[h.idx],
                    actor |-> [type |-> "bot"]], ok) IN
  /\ h.pc = "pr_delete"
  /\ MayFail(ok)
  /\ failures' = Count(ok)
  /\ handlers' = [handlers EXCEPT ![e] =
                    IF ok THEN Awaited(h, call, "pr_dellog") ELSE Caught(h, call)]
  /\ UNCHANGED <<comments, jobs>>

PullDeleteLog(e, ok) ==
  LET h == handlers[e]
      log == logBot("issue_deleted", "issue", <<"issue", Linked(h)[h.idx]>>,
                    [reason |-> "pr_merged", prNumber |-> h.number,
                     repoId |-> h.repo])
      next == IF h.idx < Len(Linked(h)) THEN "pr_delete" ELSE "done" IN
  /\ h.pc = "pr_dellog"
  /\ MayFail(ok)
  /\ failures' = Count(ok)
  /\ handlers' = [handlers EXCEPT ![e] =
       IF ok THEN [Awaited(h, LogCall(log, ok), next) EXCEPT !.idx = h.idx + 1]
       ELSE Caught(h, LogCall(log, ok))]
  /\ UNCHANGED <<comments, jobs>>

(***************************************************************************)
(* issue_comment.created                                                   *)
(***************************************************************************)
\* the webhook delivers a new comment of a user; registerCommentHandlers
\* routes it, and the chosen handler checks its own trigger again
CommentCreated(e, repo, number, inst, sender, body) ==
  LET route == CommentRoute(body)
      pc == IF route = "contributor" /\ HasRateTrigger(body) THEN "cf_get"
            ELSE IF route = "maintainer" /\ HasTrigger(body) THEN "mc_perm"
            ELSE "done" IN
  /\ Deliverable(e)
  /\ comments' = Append(comments,
                        Comment("user", "comment",
                                [kind |-> "comment", text |-> body], number))
  /\ handlers' = [handlers EXCEPT ![e] =
       [Idle EXCEPT !.pc = pc, !.kind = "issue_comment.created", !.repo = repo,
                    !.number = number, !.installation = inst,
                    !.sender = sender, !.body = body,
                    !.commentId = Len(comments) + 1]]
  /\ UNCHANGED <<jobs, failures>>

\* ['write', 'maintain', 'admin'].includes(permission.permission)
MaintainerLevels == {"write", "maintain", "admin"}

\* variant: triage collaborators pass as maintainers
hasMaintainerPermission_triage(level) ==
  IF level = "error" THEN FALSE ELSE level \in MaintainerLevels \cup {"triage"}

\* variant: every level but none passes
hasMaintainerPermission_collaborator(level) ==
  IF level = "error" THEN FALSE ELSE level # "none"

\* variant: a failed lookup passes
hasMaintainerPermission_failOpen(level) ==
  IF level = "error" THEN TRUE ELSE level \in MaintainerLevels

\* hasMaintainerPermission: the looked-up level, or "error" when the lookup throws
hasMaintainerPermission(level) ==
  IF level = "error" THEN FALSE ELSE level \in MaintainerLevels

\* variant: a command that repeats a classification already applied to the
\* issue is dropped
HasClassification_once(h) ==
  /\ h.difficulty # Null \/ h.issueType # NoType \/ h.shouldHide
  /\ ~\E e \in Events :
        \E i \in DOMAIN handlers[e].trace :
          /\ handlers[e].trace[i].op = "classifyIssue"
          /\ handlers[e].trace[i].ok
          /\ handlers[e].trace[i].arg.githubIssueId = IssueId(h.number)
          /\ handlers[e].trace[i].arg.difficulty = h.difficulty
          /\ handlers[e].trace[i].arg.issueType = h.issueType
          /\ handlers[e].trace[i].arg.hidden = h.shouldHide

\* difficulty !== null || issueType !== null || shouldHide
HasClassification(h) ==
  h.difficulty # Null \/ h.issueType # NoType \/ h.shouldHide

\* await hasMaintainerPermission(...), then the three parsers
MaintainerPermission(e, level) ==
  LET h == handlers[e]
      ok == level # "error"
      call == Call("getCollaboratorPermissionLevel",
                   [username |-> h.sender, permission |-> level], ok)
      parsed == [h EXCEPT !.perm = level,
                          !.difficulty = parseDifficultyCommand(h.body),
                          !.issueType = parseTypeCommand(h.body),
                          !.shouldHide = isHideCommand(h.body)] IN
  /\ h.pc = "mc_perm"
  /\ MayFail(ok)
  /\ failures' = Count(ok)
  /\ handlers' = [handlers EXCEPT ![e] =
       IF ~hasMaintainerPermission(level)
       THEN [Awaited(h, call, "done") EXCEPT !.perm = level]
       ELSE IF HasClassification(parsed)
       THEN Awaited(parsed, call, "mc_classify")
       ELSE Awaited(parsed, call, "done")]
  /\ UNCHANGED <<comments, jobs>>

\* difficulty ?? undefined, issueType ?? undefined, hidden: shouldHide ? true : undefined
ClassifyArgs(h) ==
  [githubRepoId |-> h.repo, githubIssueId |-> IssueId(h.number),
   difficulty |-> h.difficulty, issueType |-> h.issueType,
   hidden |-> h.shouldHide,
   actor |-> [type |-> "user", githubId |-> h.sender, username |-> h.sender]]

\* variant: the call is not awaited, its failure goes unnoticed
MaintainerClassify_notAwaited(e, ok) ==
  LET h == handlers[e]
      call == Call("classifyIssue", ClassifyArgs(h), ok) IN
  /\ h.pc = "mc_classify"
  /\ MayFail(ok)
  /\ failures' = Count(ok)
  /\ handlers' = [handlers EXCEPT ![e] = Awaited(h, call, "mc_post")]
  /\ UNCHANGED <<comments, jobs>>

\* await backendAPI.classifyIssue(...)
MaintainerClassify(e, ok) ==
  LET h == handlers[e]
      call == Call("classifyIssue", ClassifyArgs(h), ok) IN
  /\ h.pc = "mc_classify"
  /\ MayFail(ok)
  /\ failures' = Count(ok)
  /\ handlers' = [handlers EXCEPT ![e] =
                    IF ok THEN Awaited(h, call, "mc_post") ELSE Caught(h, call)]
  /\ UNCHANGED <<comments, jobs>>

\* variant: the hide flag is left out of the confirmation
Changes_noHide(h) ==
  (IF h.difficulty # Null THEN <<<<"difficulty", h.difficulty>>>> ELSE <<>>) \o
  (IF h.issueType # NoType THEN <<<<"type", h.issueType>>>> ELSE <<>>)

\* the list joined into the confirmation text
Changes(h) ==
  (IF h.difficulty # Null THEN <<<<"difficulty", h.difficulty>>>> ELSE <<>>) \o
  (IF h.issueType # NoType THEN <<<<"type", h.issueType>>>> ELSE <<>>) \o
  (IF h.shouldHide THEN <<<<"hidden from discovery">>>> ELSE <<>>)

MaintainerPost(e, ok) ==
  /\ handlers[e].pc = "mc_post"
  /\ CreateComment(e, ok, "confirmation",
                   [kind |-> "issue_updated", changes |-> Changes(handlers[e])],
                   "mc_sched1")

MaintainerScheduleCommand(e, ok) ==
  /\ handlers[e].pc = "mc_sched1"
  /\ Schedule(e, ok, handlers[e].commentId, CommandDelay, "mc_sched2")

\* variant: the confirmation is taken to be the newest comment of the platform
MaintainerScheduleConfirmation_newest(e, ok) ==
  /\ handlers[e].pc = "mc_sched2"
  /\ Schedule(e, ok, Len(comments), CommandDelay, "done")

MaintainerScheduleConfirmation(e, ok) ==
  /\ handlers[e].pc = "mc_sched2"
  /\ Schedule(e, ok, handlers[e].posted, CommandDelay, "done")


\* await context.octokit.pulls.get(...): the thread is no pull request (404),
\* the call fails, or the pull request is returned
PullResponses ==
  {[found |-> TRUE, merged |-> m, user |-> u, id |-> 0] : m \in BOOLEAN, u \in UserIds}

\* variant: the author comparison is missing
isValidFeedbackContext_anyone(pr, commenterId) ==
  IF pr.found /\ pr.merged
  THEN [valid |-> TRUE, prId |-> pr.id]
  ELSE [valid |-> FALSE, prId |-> Null]

\* isValidFeedbackContext: pr.merged && pr.user?.id === commenterId
isValidFeedbackContext(pr, commenterId) ==
  IF pr.found /\ pr.merged /\ pr.user = commenterId
  THEN [valid |-> TRUE, prId |-> pr.id]
  ELSE [valid |-> FALSE, prId |-> Null]

\* await isValidFeedbackContext(...), then the two rating parsers
ContributorFetch(e, outcome, resp) ==
  LET h == handlers[e]
      ok == outcome = "ok"
      pr == IF ok THEN [resp EXCEPT !.id = PullId(h.number)] ELSE NoPull
      call == Call("pulls.get", [pull_number |-> h.number, outcome |-> outcome], ok)
      ctx == isValidFeedbackContext(pr, h.sender)
      parsed == [h EXCEPT !.pr = pr, !.fetch = outcome,
                          !.difficultyRating = parseDifficultyRating(h.body),
                          !.responsivenessRating = parseResponsivenessRating(h.body)] IN
  /\ h.pc = "cf_get"
  /\ outcome \in {"ok", "not_a_pull_request", "error"}
  /\ outcome = "error" => failures < MaxFailures
  /\ outcome # "ok" => resp = NoPull
  /\ outcome = "ok" => resp \in PullResponses
  /\ failures' = IF outcome = "error" THEN failures + 1 ELSE failures
  /\ handlers' = [handlers EXCEPT ![e] =
       IF ~ctx.valid \/ ctx.prId = Null
       THEN [Awaited(h, call, "done") EXCEPT !.pr = pr, !.fetch = outcome]
       ELSE IF parsed.difficultyRating = Null /\ parsed.responsivenessRating = Null
       THEN Awaited(parsed, call, "done")
       ELSE Awaited(parsed, call, "cf_submit")]
  /\ UNCHANGED <<comments, jobs>>

\* variant: the feedback is keyed by the number of the thread
FeedbackArgs_byNumber(h) ==
  [githubPrId |-> h.number, githubRepoId |-> h.repo,
   difficultyRating |-> h.difficultyRating,
   responsivenessRating |-> h.responsivenessRating]

\* variant: the commenter is sent along, as classifyIssue does
FeedbackArgs_withActor(h) ==
  [githubPrId |-> h.pr.id, githubRepoId |-> h.repo,
   difficultyRating |-> h.difficultyRating,
   responsivenessRating |-> h.responsivenessRating,
   actor |-> [type |-> "user", githubId |-> h.sender, username |-> h.sender]]

\* the data of backendAPI.submitFeedback: no actor
FeedbackArgs(h) ==
  [githubPrId |-> h.pr.id, githubRepoId |-> h.repo,
   difficultyRating |-> h.difficultyRating,
   responsivenessRating |-> h.responsivenessRating]

\* await backendAPI.submitFeedback(...): throws unless response.ok. The
\* handler makes no existing-feedback check of its own; whether the backend
\* answers 2xx (ok) or not is the backend's decision, for a first and for a
\* repeated submission alike
ContributorSubmit(e, ok) ==
  LET h == handlers[e]
      call == Call("submitFeedback", FeedbackArgs(h), ok) IN
  /\ h.pc = "cf_submit"
  /\ MayFail(ok)
  /\ failures' = Count(ok)
  /\ handlers' = [handlers EXCEPT ![e] =
                    IF ok THEN Awaited(h, call, "cf_log") ELSE Caught(h, call)]
  /\ UNCHANGED <<comments, jobs>>

\* variant: the log context names the pull request
ContributorLog_withPr(e, ok) ==
  /\ handlers[e].pc = "cf_log"
  /\ WriteLog(e, ok,
       logContributor("feedback_received", "repo", <<"repo", handlers[e].repo>>,
                      [difficulty_rating |-> handlers[e].difficultyRating,
                       responsiveness_rating |-> handlers[e].responsivenessRating,
                       prNumber |-> handlers[e].number]),
       "cf_post")

ContributorLog(e, ok) ==
  /\ handlers[e].pc = "cf_log"
  /\ WriteLog(e, ok,
       logContributor("feedback_received", "repo", <<"repo", handlers[e].repo>>,
                      [difficulty_rating |-> handlers[e].difficultyRating,
                       responsiveness_rating |-> handlers[e].responsivenessRating]),
       "cf_post")

ContributorPost(e, ok) ==
  /\ handlers[e].pc = "cf_post"
  /\ CreateComment(e, ok, "confirmation", [kind |-> "feedback_thanks"], "cf_sched1")

ContributorScheduleCommand(e, ok) ==
  /\ handlers[e].pc = "cf_sched1"
  /\ Schedule(e, ok, handlers[e].commentId, CommandDelay, "cf_sched2")

ContributorScheduleConfirmation(e, ok) ==
  /\ handlers[e].pc = "cf_sched2"
  /\ Schedule(e, ok, handlers[e].posted, CommandDelay, "done")


(***************************************************************************)
(* Cleanup worker                                                          *)
(***************************************************************************)
JobIds == DOMAIN jobs

\* 2 ^ n
RECURSIVE Pow2(_)
Pow2(n) == IF n = 0 THEN 1 ELSE 2 * Pow2(n - 1)

\* variant: the exponent is off by one
Backoff_late(job, attemptsMade) == Pow2(attemptsMade) * job.backoff

\* backoff {type: 'exponential', delay}: the wait after the attemptsMade-th
\* failed attempt
Backoff(job, attemptsMade) == Pow2(attemptsMade - 1) * job.backoff

\* variant: a job that has failed once is never claimed again
Eligible_freshOnly(job) ==
  job.state = "delayed" /\ job.remaining = 0 /\ job.attemptsMade = 0

\* variant: the claim does not move the job out of reach of other claims
Eligible_unclaimed(job) ==
  job.state \in {"delayed", "active"} /\ job.remaining = 0

\* variant: the delay option is ignored
Eligible_early(job) == job.state = "delayed"

\* a job the worker may claim: delayed, and its delay has elapsed
Eligible(job) == job.state = "delayed" /\ job.remaining = 0

\* jobs the worker is processing
Active == {j \in JobIds : jobs[j].state = "active"}

\* variant: the worker claims every eligible job
WorkerStart_unbounded(j) ==
  /\ j \in JobIds
  /\ Eligible(jobs[j])
  /\ jobs' = [jobs EXCEPT ![j] =
       [@ EXCEPT !.state = "active", !.step = "auth",
                 !.executors = @ + 1,
                 !.starts = IF @ = <<>> THEN <<jobs[j].age>> ELSE @]]
  /\ UNCHANGED <<handlers, comments, failures>>

\* the worker claims an eligible job while fewer than `concurrency` are active
WorkerStart(j) ==
  /\ j \in JobIds
  /\ Eligible(jobs[j])
  /\ Cardinality(Active) < Concurrency
  /\ jobs' = [jobs EXCEPT ![j] =
       [@ EXCEPT !.state = "active", !.step = "auth",
                 !.executors = @ + 1,
                 !.starts = IF @ = <<>> THEN <<jobs[j].age>> ELSE @]]
  /\ UNCHANGED <<handlers, comments, failures>>

\* variant: the last retry is lost
MoveToFailed_early(job) ==
  LET made == job.attemptsMade + 1 IN
  IF made < job.attempts - 1
  THEN [job EXCEPT !.attemptsMade = made, !.state = "delayed",
                   !.remaining = Pow2(made - 1) * job.backoff,
                   !.waits = Append(@, Pow2(made - 1) * job.backoff),
                   !.step = "none", !.executors = @ - 1]
  ELSE [job EXCEPT !.attemptsMade = made, !.state = "failed",
                   !.step = "none", !.executors = @ - 1]

\* variant: the job is added with removeOnFail, so that an exhausted job is
\* removed from the queue
MoveToFailed_removeOnFail(job) ==
  LET made == job.attemptsMade + 1 IN
  IF made < job.attempts
  THEN [job EXCEPT !.attemptsMade = made, !.state = "delayed",
                   !.remaining = Pow2(made - 1) * job.backoff,
                   !.waits = Append(@, Pow2(made - 1) * job.backoff),
                   !.step = "none", !.executors = @ - 1]
  ELSE [job EXCEPT !.attemptsMade = made, !.state = "removed",
                   !.step = "none", !.executors = @ - 1]

\* the processor threw: retry after the backoff while attempts remain,
\* otherwise the job has failed
MoveToFailed(job) ==
  LET made == job.attemptsMade + 1 IN
  IF made < job.attempts
  THEN [job EXCEPT !.attemptsMade = made, !.state = "delayed",
                   !.remaining = Backoff(job, made),
                   !.waits = Append(@, Backoff(job, made)),
                   !.step = "none", !.executors = @ - 1]
  ELSE [job EXCEPT !.attemptsMade = made, !.state = "failed",
                   !.step = "none", !.executors = @ - 1]

\* the processor returned
MoveToCompleted(job) ==
  [job EXCEPT !.attemptsMade = @ + 1, !.state = "completed",
              !.step = "none", !.executors = @ - 1]

\* const octokit = await app.auth(installationId): the first await of the
\* processor; when it fails the processor throws before any deletion call
WorkerAuth(j, ok) ==
  LET job == jobs[j] IN
  /\ j \in JobIds
  /\ job.state = "active"
  /\ job.step = "auth"
  /\ MayFail(ok)
  /\ failures' = Count(ok)
  /\ jobs' = [jobs EXCEPT ![j] =
       IF ok
       THEN [job EXCEPT !.step = "delete", !.authCalls = @ + 1]
       ELSE [MoveToFailed(job) EXCEPT !.authCalls = @ + 1]]
  /\ UNCHANGED <<handlers, comments>>

\* await octokit.issues.deleteComment(...): deleting a comment that is gone
\* fails (404)
WorkerDelete(j, ok) ==
  LET job == jobs[j]
      c == job.data.commentId
      done == ok /\ comments[c].live IN
  /\ j \in JobIds
  /\ job.state = "active"
  /\ job.step = "delete"
  /\ MayFail(ok)
  /\ failures' = Count(ok)
  /\ comments' = IF done THEN [comments EXCEPT ![c].live = FALSE] ELSE comments
  /\ jobs' = [jobs EXCEPT ![j] =
       IF done
       THEN [job EXCEPT !.step = "log", !.deleteCalls = @ + 1, !.deleted = @ + 1]
       ELSE [MoveToFailed(job) EXCEPT !.deleteCalls = @ + 1]]
  /\ UNCHANGED handlers

\* await logger.logSystem('comment_cleaned_up', ...), then return
WorkerLog(j, ok) ==
  LET job == jobs[j] IN
  /\ j \in JobIds
  /\ job.state = "active"
  /\ job.step = "log"
  /\ MayFail(ok)
  /\ failures' = Count(ok)
  /\ jobs' = [jobs EXCEPT ![j] =
       IF ok THEN [MoveToCompleted(job) EXCEPT !.logged = @ + 1]
       ELSE MoveToFailed(job)]
  /\ UNCHANGED <<handlers, comments>>

\* time passes until the next delayed job becomes due; age is the time since
\* the job was added, kept until the worker claims the job for the first time
Waiting == {j \in JobIds : jobs[j].state = "delayed" /\ jobs[j].remaining > 0}
Tick ==
  /\ Waiting # {}
  /\ LET d == CHOOSE d \in {jobs[j].remaining : j \in Waiting} :
                \A j \in Waiting : d <= jobs[j].remaining IN
     jobs' = [j \in JobIds |->
                IF j \in Waiting
                THEN [jobs[j] EXCEPT !.remaining = @ - d,
                                     !.age = IF jobs[j].starts = <<>> THEN @ + d ELSE @]
                ELSE IF jobs[j].starts = <<>>
                THEN [jobs[j] EXCEPT !.age = @ + d]
                ELSE jobs[j]]
  /\ UNCHANGED <<handlers, comments, failures>>

(***************************************************************************)
(* Specification                                                           *)
(***************************************************************************)
Next ==
  \/ \E e \in Events, r \in Repos, n \in IssueNumbers, i \in InstallationIds :
       IssueOpened(e, r, n, i)
  \/ \E e \in Events, ok \in BOOLEAN : IssuePost(e, ok)
  \/ \E e \in Events, ok \in BOOLEAN : IssueLog(e, ok)
  \/ \E e \in Events, ok \in BOOLEAN : IssueSchedule(e, ok)
  \/ \E e \in Events, r \in Repos, n \in IssueNumbers, i \in InstallationIds,
        m \in BOOLEAN, b \in PullBodies, hr \in BOOLEAN :
       PullClosed(e, r, n, i, m, b, hr)
  \/ \E e \in Events, ok \in BOOLEAN : PullPost(e, ok)
  \/ \E e \in Events, ok \in BOOLEAN : PullLog(e, ok)
  \/ \E e \in Events, ok \in BOOLEAN : PullSchedule(e, ok)
  \/ \E e \in Events, ok \in BOOLEAN : PullDeleteIssue(e, ok)
  \/ \E e \in Events, ok \in BOOLEAN : PullDeleteLog(e, ok)
  \/ \E e \in Events, r \in Repos, n \in IssueNumbers, i \in InstallationIds,
        u \in UserIds, b \in Bodies :
       CommentCreated(e, r, n, i, u, b)
  \/ \E e \in Events, level \in PermLevels \cup {"error"} :
       MaintainerPermission(e, level)
  \/ \E e \in Events, ok \in BOOLEAN : MaintainerClassify(e, ok)
  \/ \E e \in Events, ok \in BOOLEAN : MaintainerPost(e, ok)
  \/ \E e \in Events, ok \in BOOLEAN : MaintainerScheduleCommand(e, ok)
  \/ \E e \in Events, ok \in BOOLEAN : MaintainerScheduleConfirmation(e, ok)
  \/ \E e \in Events, outcome \in {"ok", "not_a_pull_request", "error"},
        resp \in PullResponses \cup {NoPull} :
       ContributorFetch(e, outcome, resp)
  \/ \E e \in Events, ok \in BOOLEAN : ContributorSubmit(e, ok)
  \/ \E e \in Events, ok \in BOOLEAN : ContributorLog(e, ok)
  \/ \E e \in Events, ok \in BOOLEAN : ContributorPost(e, ok)
  \/ \E e \in Events, ok \in BOOLEAN : ContributorScheduleCommand(e, ok)
  \/ \E e \in Events, ok \in BOOLEAN : ContributorScheduleConfirmation(e, ok)
  \/ \E j \in JobIds : WorkerStart(j)
  \/ \E j \in JobIds, ok \in BOOLEAN : WorkerAuth(j, ok)
  \/ \E j \in JobIds, ok \in BOOLEAN : WorkerDelete(j, ok)
  \/ \E j \in JobIds, ok \in BOOLEAN : WorkerLog(j, ok)
  \/ Tick

Spec == Init /\ [][Next]_vars


\* the worker polls the queue and time passes: every step of a cleanup job
\* that stays possible is eventually taken; webhook deliveries are not forced
Fairness ==
  /\ WF_vars(Tick)
  /\ \A j \in 1..(2 * MaxEvents) :
       /\ WF_vars(WorkerStart(j))
       /\ WF_vars(\E ok \in BOOLEAN : WorkerAuth(j, ok))
       /\ WF_vars(\E ok \in BOOLEAN : WorkerDelete(j, ok))
       /\ WF_vars(\E ok \in BOOLEAN : WorkerLog(j, ok))

FairSpec == Spec /\ Fairness

(***************************************************************************)
(* Rate commands on pull-request threads: MaxRates comments, each a rate   *)
(* command of some user on one of two pull requests, handled concurrently  *)
(***************************************************************************)
RateBodies == {B_rate4, B_rateBoth}
PullNumbers == {7, 8}

RateInit ==
  /\ handlers = [e \in 1..MaxRates |-> Idle]
  /\ comments = <<>>
  /\ jobs = <<>>
  /\ failures = 0

RateNext ==
  \/ \E e \in Events, r \in Repos, n \in PullNumbers, i \in InstallationIds,
        u \in UserIds, b \in RateBodies :
       CommentCreated(e, r, n, i, u, b)
  \/ \E e \in Events, outcome \in {"ok", "not_a_pull_request", "error"},
        resp \in PullResponses \cup {NoPull} :
       ContributorFetch(e, outcome, resp)
  \/ \E e \in Events, ok \in BOOLEAN : ContributorSubmit(e, ok)
  \/ \E e \in Events, ok \in BOOLEAN : ContributorLog(e, ok)
  \/ \E e \in Events, ok \in BOOLEAN : ContributorPost(e, ok)
  \/ \E e \in Events, ok \in BOOLEAN : ContributorScheduleCommand(e, ok)
  \/ \E e \in Events, ok \in BOOLEAN : ContributorScheduleConfirmation(e, ok)

RateSpec == RateInit /\ [][RateNext]_vars

(***************************************************************************)
(* The worker alone: the app has been restarted, no handler is running,    *)
(* and the queue holds the cleanup jobs of QueuedJobs issue nudges, the    *)
(* nudge of the j-th issue being comment j; the calls that may fail have   *)
(* failed before the restart                                               *)
(***************************************************************************)
QueuedJobs == 6

QueuedNudges ==
  [j \in 1..QueuedJobs |-> Comment("bot", "issue_nudge", NudgeBody("issue_nudge"), j)]

QueuedAdds ==
  [j \in 1..QueuedJobs |->
     [data |-> [owner |-> 900, repo |-> 900, commentId |-> j, issueNumber |-> j,
                installationId |-> 55],
      delay |-> IssueNudgeDelay]]

WorkerInit ==
  /\ handlers = <<>>
  /\ comments = QueuedNudges
  /\ jobs = QueueOf(QueuedAdds)
  /\ failures = MaxFailures

WorkerNext ==
  \/ \E j \in JobIds : WorkerStart(j)
  \/ \E j \in JobIds, ok \in BOOLEAN : WorkerAuth(j, ok)
  \/ \E j \in JobIds, ok \in BOOLEAN : WorkerDelete(j, ok)
  \/ \E j \in JobIds, ok \in BOOLEAN : WorkerLog(j, ok)
  \/ Tick

WorkerSpec == WorkerInit /\ [][WorkerNext]_vars

(***************************************************************************)
(* Two comments on one thread, each a maintainer command or a rate         *)
(* command, their handlers interleaved at the awaited calls                *)
(***************************************************************************)
MaxComments == 2

PairBodies == {B_diff3, B_diffType, B_rate4}

PairInit ==
  /\ handlers = [e \in 1..MaxComments |-> Idle]
  /\ comments = <<>>
  /\ jobs = <<>>
  /\ failures = 0

PairNext ==
  \/ \E e \in Events, r \in Repos, n \in IssueNumbers, i \in InstallationIds,
        u \in UserIds, b \in PairBodies :
       CommentCreated(e, r, n, i, u, b)
  \/ \E e \in Events, level \in PermLevels \cup {"error"} :
       MaintainerPermission(e, level)
  \/ \E e \in Events, ok \in BOOLEAN : MaintainerClassify(e, ok)
  \/ \E e \in Events, ok \in BOOLEAN : MaintainerPost(e, ok)
  \/ \E e \in Events, ok \in BOOLEAN : MaintainerScheduleCommand(e, ok)
  \/ \E e \in Events, ok \in BOOLEAN : MaintainerScheduleConfirmation(e, ok)
  \/ \E e \in Events, outcome \in {"ok", "not_a_pull_request", "error"},
        resp \in PullResponses \cup {NoPull} :
       ContributorFetch(e, outcome, resp)
  \/ \E e \in Events, ok \in BOOLEAN : ContributorSubmit(e, ok)
  \/ \E e \in Events, ok \in BOOLEAN : ContributorLog(e, ok)
  \/ \E e \in Events, ok \in BOOLEAN : ContributorPost(e, ok)
  \/ \E e \in Events, ok \in BOOLEAN : ContributorScheduleCommand(e, ok)
  \/ \E e \in Events, ok \in BOOLEAN : ContributorScheduleConfirmation(e, ok)

PairSpec == PairInit /\ [][PairNext]_vars

(***************************************************************************)
(* The bot's own comments, delivered back as issue_comment.created: the    *)
(* thread holds one comment of the bot; its text is what createComment was *)
(* given, without the leading emoji and with ' for each backquote          *)
(***************************************************************************)
\* the issue-opened nudge
T_issueNudge ==
  <<"T","h","a","n","k","s"," ","f","o","r"," ","o","p","e","n","i","n","g",
    " ","t","h","i","s"," ","i","s","s","u","e","!"," ","M","a","i","n","t",
    "a","i","n","e","r","s"," ","c","a","n"," ","c","l","a","s","s","i","f",
    "y"," ","i","t"," ","u","s","i","n","g",":","\n","\n","'","/","r","e",
    "p","o","s","i","g","n","a","l"," ","d","i","f","f","i","c","u","l","t",
    "y"," ","<","1","-","5",">","'","\n","'","/","r","e","p","o","s","i",
    "g","n","a","l"," ","t","y","p","e"," ","<","d","o","c","s","|","b","u",
    "g","|","f","e","a","t","u","r","e","|","r","e","f","a","c","t","o","r",
    "|","t","e","s","t","|","i","n","f","r","a",">","'","\n","\n","O","r",
    " ","h","i","d","e"," ","i","t"," ","f","r","o","m"," ","d","i","s","c",
    "o","v","e","r","y",":"," ","'","/","r","e","p","o","s","i","g","n","a",
    "l"," ","h","i","d","e","'">>
\* the merge-feedback nudge
T_feedbackNudge ==
  <<"T","h","a","n","k","s"," ","f","o","r"," ","y","o","u","r"," ","c","o",
    "n","t","r","i","b","u","t","i","o","n","!","\n","\n","H","e","l","p",
    " ","u","s"," ","i","m","p","r","o","v","e"," ","b","y"," ","s","h","a",
    "r","i","n","g"," ","y","o","u","r"," ","e","x","p","e","r","i","e","n",
    "c","e",":","\n","\n","'","/","r","e","p","o","s","i","g","n","a","l",
    " ","r","a","t","e"," ","d","i","f","f","i","c","u","l","t","y"," ","<",
    "1","-","5",">","'","\n","'","/","r","e","p","o","s","i","g","n","a",
    "l"," ","r","a","t","e"," ","r","e","s","p","o","n","s","i","v","e","n",
    "e","s","s"," ","<","1","-","5",">","'","\n","\n","Y","o","u","r"," ",
    "f","e","e","d","b","a","c","k"," ","i","s"," ","a","n","o","n","y","m",
    "o","u","s"," ","a","n","d"," ","h","e","l","p","s"," ","f","u","t","u",
    "r","e"," ","c","o","n","t","r","i","b","u","t","o","r","s",".">>
\* the two confirmations
T_updated ==
  <<"I","s","s","u","e"," ","u","p","d","a","t","e","d",":"," ">>
T_hidden ==
  <<"h","i","d","d","e","n"," ","f","r","o","m"," ","d","i","s","c","o","v",
    "e","r","y">>
T_thanks ==
  <<"T","h","a","n","k"," ","y","o","u"," ","f","o","r"," ","y","o","u","r",
    " ","a","n","o","n","y","m","o","u","s"," ","f","e","e","d","b","a","c",
    "k","!">>

\* one entry of changes[], as pushed by handleMaintainerCommand
ChangeText(c) ==
  IF c[1] = "difficulty" THEN W_difficulty \o SP \o <<RatingDigits[c[2]]>>
  ELSE IF c[1] = "type" THEN W_type \o SP \o c[2]
  ELSE T_hidden

\* changes.join with a comma and a space
RECURSIVE Join(_)
Join(changes) ==
  IF changes = <<>> THEN <<>>
  ELSE IF Len(changes) = 1 THEN ChangeText(changes[1])
  ELSE ChangeText(changes[1]) \o <<",", " ">> \o Join(Tail(changes))

\* the text of a comment of the bot
Render(body) ==
  IF body.kind = "issue_nudge" THEN T_issueNudge
  ELSE IF body.kind = "feedback_nudge" THEN T_feedbackNudge
  ELSE IF body.kind = "issue_updated" THEN T_updated \o Join(body.changes)
  ELSE T_thanks

\* the account the app comments with
BotId == 99
MaxEchoes == 2

\* the fields a maintainer command can carry
Classifications ==
  {p \in [difficulty : {Null} \cup 1..5,
          issueType : {NoType} \cup {IssueTypes[k] : k \in DOMAIN IssueTypes},
          shouldHide : BOOLEAN] : HasClassification(p)}

\* the comments the handlers post
BotComments ==
  {Comment("bot", "issue_nudge", NudgeBody("issue_nudge"), n) : n \in IssueNumbers}
    \cup {Comment("bot", "feedback_nudge", NudgeBody("feedback_nudge"), n) :
            n \in IssueNumbers}
    \cup {Comment("bot", "confirmation", [kind |-> "feedback_thanks"], n) :
            n \in IssueNumbers}
    \cup {Comment("bot", "confirmation",
                  [kind |-> "issue_updated", changes |-> Changes(p)], n) :
            n \in IssueNumbers, p \in Classifications}

EchoInit ==
  /\ handlers = [e \in 1..MaxEchoes |-> Idle]
  /\ comments \in {<<c>> : c \in BotComments}
  /\ jobs = <<>>
  /\ failures = 0

\* issue_comment.created for comment c, posted by the bot: the same handler
\* of registerCommentHandlers runs, the sender being the bot
BotCommentCreated(e, c, repo, inst) ==
  LET body == Render(comments[c].body)
      route == CommentRoute(body)
      pc == IF route = "contributor" /\ HasRateTrigger(body) THEN "cf_get"
            ELSE IF route = "maintainer" /\ HasTrigger(body) THEN "mc_perm"
            ELSE "done" IN
  /\ Deliverable(e)
  /\ c \in DOMAIN comments
  /\ comments[c].author = "bot"
  /\ \A o \in Events : handlers[o].commentId # c
  /\ handlers' = [handlers EXCEPT ![e] =
       [Idle EXCEPT !.pc = pc, !.kind = "issue_comment.created", !.repo = repo,
                    !.number = comments[c].number, !.installation = inst,
                    !.sender = BotId, !.body = body, !.commentId = c]]
  /\ UNCHANGED <<comments, jobs, failures>>

EchoNext ==
  \/ \E e \in Events, c \in DOMAIN comments, r \in Repos, i \in InstallationIds :
       BotCommentCreated(e, c, r, i)
  \/ \E e \in Events, level \in PermLevels \cup {"error"} :
       MaintainerPermission(e, level)
  \/ \E e \in Events, ok \in BOOLEAN : MaintainerClassify(e, ok)
  \/ \E e \in Events, ok \in BOOLEAN : MaintainerPost(e, ok)
  \/ \E e \in Events, ok \in BOOLEAN : MaintainerScheduleCommand(e, ok)
  \/ \E e \in Events, ok \in BOOLEAN : MaintainerScheduleConfirmation(e, ok)
  \/ \E e \in Events, outcome \in {"ok", "not_a_pull_request", "error"},
        resp \in PullResponses \cup {NoPull} :
       ContributorFetch(e, outcome, resp)

EchoSpec == EchoInit /\ [][EchoNext]_vars

(***************************************************************************)
(* installation.created and installation_repositories.added: the handler   *)
(* keeps the repositories of the payload in body and the position of its   *)
(* loop in idx                                                             *)
(***************************************************************************)
MaxInstalls == 1

\* payload.repositories / payload.repositories_added, by repository id
RepoLists == {<<>>, <<901>>, <<901, 902>>}

InstallInit ==
  /\ handlers = [e \in 1..MaxInstalls |-> Idle]
  /\ comments = <<>>
  /\ jobs = <<>>
  /\ failures = 0

InstallationCreated(e, inst, repos) ==
  /\ Deliverable(e)
  /\ handlers' = [handlers EXCEPT ![e] =
       [Idle EXCEPT !.pc = "in_sync", !.kind = "installation.created",
                    !.installation = inst, !.body = repos]]
  /\ UNCHANGED <<comments, jobs, failures>>

RepositoriesAdded(e, inst, repos) ==
  /\ Deliverable(e)
  /\ handlers' = [handlers EXCEPT ![e] =
       [Idle EXCEPT !.pc = "in_sync", !.kind = "installation_repositories.added",
                    !.installation = inst, !.body = repos]]
  /\ UNCHANGED <<comments, jobs, failures>>

\* where the handler goes after the loop over the repositories
AfterRepos(h) == IF h.kind = "installation.created" THEN "in_log" ELSE "done"

\* await backendAPI.syncInstallation(...), inside the handler's try block
InstallSync(e, ok) ==
  LET h == handlers[e]
      call == Call("syncInstallation", [githubInstallationId |-> h.installation], ok) IN
  /\ h.pc = "in_sync"
  /\ MayFail(ok)
  /\ failures' = Count(ok)
  /\ handlers' = [handlers EXCEPT ![e] =
       IF ~ok THEN Caught(h, call)
       ELSE Awaited(h, call, IF h.body # <<>> THEN "in_get" ELSE AfterRepos(h))]
  /\ UNCHANGED <<comments, jobs>>

\* one awaited call of addRepositoryWithMetadata: its own catch block ends
\* the function, and the caller goes on to its log write
RepoStep(e, ok, op, pc) ==
  LET h == handlers[e]
      call == Call(op, [githubRepoId |-> h.body[h.idx]], ok) IN
  /\ MayFail(ok)
  /\ failures' = Count(ok)
  /\ handlers' = [handlers EXCEPT ![e] =
       Awaited(h, call, IF ok THEN pc ELSE "in_repolog")]
  /\ UNCHANGED <<comments, jobs>>

\* await context.octokit.repos.get(...)
InstallGet(e, ok) ==
  /\ handlers[e].pc = "in_get"
  /\ RepoStep(e, ok, "repos.get", "in_add")

\* await backendAPI.addRepository(...)
InstallAdd(e, ok) ==
  /\ handlers[e].pc = "in_add"
  /\ RepoStep(e, ok, "addRepository", "in_langs")

\* await context.octokit.repos.listLanguages(...)
InstallLanguages(e, ok) ==
  /\ handlers[e].pc = "in_langs"
  /\ RepoStep(e, ok, "repos.listLanguages", "in_meta")

\* await Promise.all([getLanguages(), getFrameworks(), getDomains()]); the
\* update follows when the repository has languages or topics
InstallCanonical(e, ok, hasMetadata) ==
  /\ handlers[e].pc = "in_meta"
  /\ RepoStep(e, ok, "getCanonical", IF hasMetadata THEN "in_update" ELSE "in_repolog")

\* await backendAPI.updateRepositoryMetadata(...)
InstallUpdate(e, ok) ==
  /\ handlers[e].pc = "in_update"
  /\ RepoStep(e, ok, "updateRepositoryMetadata", "in_repolog")

\* await logger.logSystem('repository_added', 'repo', `repo#${repo.id}`), then
\* the next repository
InstallRepoLog(e, ok) ==
  LET h == handlers[e] IN
  /\ h.pc = "in_repolog"
  /\ MayFail(ok)
  /\ failures' = Count(ok)
  /\ handlers' = [handlers EXCEPT ![e] =
       IF ~ok
       THEN Caught(h, LogCall(logSystem("repository_added", "repo",
                                        <<"repo", h.body[h.idx]>>, Null), ok))
       ELSE [Awaited(h, LogCall(logSystem("repository_added", "repo",
                                          <<"repo", h.body[h.idx]>>, Null), ok),
                     IF h.idx < Len(h.body) THEN "in_get" ELSE AfterRepos(h))
               EXCEPT !.idx = IF h.idx < Len(h.body) THEN h.idx + 1 ELSE h.idx]]
  /\ UNCHANGED <<comments, jobs>>

\* await logger.logSystem('installation_created', ...)
InstallLog(e, ok) ==
  /\ handlers[e].pc = "in_log"
  /\ WriteLog(e, ok,
       logSystem("installation_created", "installation",
                 <<"installation", handlers[e].installation>>, Null),
       "done")

InstallNext ==
  \/ \E e \in Events, i \in InstallationIds, repos \in RepoLists :
       InstallationCreated(e, i, repos)
  \/ \E e \in Events, i \in InstallationIds, repos \in RepoLists \ {<<>>} :
       RepositoriesAdded(e, i, repos)
  \/ \E e \in Events, ok \in BOOLEAN : InstallSync(e, ok)
  \/ \E e \in Events, ok \in BOOLEAN : InstallGet(e, ok)
  \/ \E e \in Events, ok \in BOOLEAN : InstallAdd(e, ok)
  \/ \E e \in Events, ok \in BOOLEAN : InstallLanguages(e, ok)
  \/ \E e \in Events, ok \in BOOLEAN, hasMetadata \in BOOLEAN :
       InstallCanonical(e, ok, hasMetadata)
  \/ \E e \in Events, ok \in BOOLEAN : InstallUpdate(e, ok)
  \/ \E e \in Events, ok \in BOOLEAN : InstallRepoLog(e, ok)
  \/ \E e \in Events, ok \in BOOLEAN : InstallLog(e, ok)

InstallSpec == InstallInit /\ [][InstallNext]_vars

(***************************************************************************)
(* Maintainer commands: one comment holding any combination of a           *)
(* difficulty command (d in 1..5, 0: none), a type command (the t-th issue *)
(* type, 0: none) and a hide command, one command per line                 *)
(***************************************************************************)
Combo(d, t, hide) ==
  (IF d # 0
   THEN W_trigger \o SP \o W_difficulty \o SP \o <<RatingDigits[d]>> \o NL
   ELSE <<>>) \o
  (IF t # 0
   THEN W_trigger \o SP \o W_type \o SP \o IssueTypes[t] \o NL
   ELSE <<>>) \o
  (IF hide THEN W_trigger \o SP \o W_hide ELSE <<>>)

CommandBodies ==
  {Combo(d, t, hide) : d \in 0..5, t \in 0..6, hide \in BOOLEAN} \ {<<>>}

CommandNext ==
  \/ \E e \in Events, r \in Repos, n \in IssueNumbers, i \in InstallationIds,
        u \in UserIds, b \in CommandBodies :
       CommentCreated(e, r, n, i, u, b)
  \/ \E e \in Events, level \in PermLevels \cup {"error"} :
       MaintainerPermission(e, level)
  \/ \E e \in Events, ok \in BOOLEAN : MaintainerClassify(e, ok)
  \/ \E e \in Events, ok \in BOOLEAN : MaintainerPost(e, ok)
  \/ \E e \in Events, ok \in BOOLEAN : MaintainerScheduleCommand(e, ok)
  \/ \E e \in Events, ok \in BOOLEAN : MaintainerScheduleConfirmation(e, ok)

CommandSpec == Init /\ [][CommandNext]_vars

(***************************************************************************)
(* Command texts: one command per comment, its keywords written in lower   *)
(* case, in upper case or capitalised, and difficulty and rating commands  *)
(* with numeric arguments inside and outside 1..5                          *)
(***************************************************************************)
\* String.prototype.toUpperCase on one character
ToUpper(c) ==
  IF \E i \in DOMAIN LowerAlpha : LowerAlpha[i] = c
  THEN UpperAlpha[CHOOSE i \in DOMAIN LowerAlpha : LowerAlpha[i] = c]
  ELSE c

Styles == {"lower", "upper", "capital"}
Cased(style, w) ==
  [k \in 1..Len(w) |->
     IF style = "upper" \/ (style = "capital" /\ k = 1) THEN ToUpper(w[k])
     ELSE w[k]]

RateOps == {"rate_difficulty", "rate_responsiveness"}
GrammarCommands ==
  {[op |-> o, value |-> n] : o \in {"difficulty"} \cup RateOps, n \in 1..5}
    \cup {[op |-> "type", value |-> t] : t \in 1..6}
    \cup {[op |-> "hide", value |-> 0]}

\* the keywords of a command, after the trigger
Keywords(style, op) ==
  IF op = "difficulty" THEN Cased(style, W_difficulty)
  ELSE IF op = "type" THEN Cased(style, W_type)
  ELSE IF op = "hide" THEN Cased(style, W_hide)
  ELSE IF op = "rate_difficulty"
  THEN Cased(style, W_rate) \o SP \o Cased(style, W_difficulty)
  ELSE Cased(style, W_rate) \o SP \o Cased(style, W_responsiveness)

CasedBody(style, cmd) ==
  W_trigger \o SP \o Keywords(style, cmd.op) \o
  (IF cmd.op = "hide" THEN <<>>
   ELSE IF cmd.op = "type" THEN SP \o Cased(style, IssueTypes[cmd.value])
   ELSE SP \o <<RatingDigits[cmd.value]>>)

NumArgs ==
  {<<"0">>, <<"3">>, <<"6">>, <<"9">>, <<"3","5">>, <<"1","0">>, <<"5","1">>,
   <<"6","0">>}
NumOps == {"difficulty"} \cup RateOps
NumBody(op, digits) == W_trigger \o SP \o Keywords("lower", op) \o SP \o digits

\* commands whose words are separated by white space other than one space:
\* a form feed, a tab, a run of three, U+2003; the router looks for the rate
\* keyword after exactly one space, the parsers after any run of \s
SpacedBodies ==
  {W_trigger \o <<"\f">> \o W_hide,
   W_trigger \o <<" ", "\f", " ">> \o W_hide,
   W_trigger \o <<"U+2003">> \o W_difficulty \o <<"\t">> \o <<"3">>,
   W_trigger \o SP \o W_type \o <<"\f">> \o W_bug,
   W_trigger \o SP \o W_rate \o <<"\f">> \o W_difficulty \o SP \o <<"4">>,
   W_trigger \o <<"\f">> \o W_rate \o SP \o W_difficulty \o SP \o <<"4">>}

GrammarBodies ==
  {CasedBody(style, cmd) : style \in Styles, cmd \in GrammarCommands}
    \cup {NumBody(op, digits) : op \in NumOps, digits \in NumArgs}
    \cup {B_tags, B_rateNone}
    \cup SpacedBodies

GrammarNext ==
  \/ \E e \in Events, r \in Repos, n \in IssueNumbers, i \in InstallationIds,
        u \in UserIds, b \in GrammarBodies :
       CommentCreated(e, r, n, i, u, b)
  \/ \E e \in Events, level \in PermLevels \cup {"error"} :
       MaintainerPermission(e, level)
  \/ \E e \in Events, ok \in BOOLEAN : MaintainerClassify(e, ok)
  \/ \E e \in Events, ok \in BOOLEAN : MaintainerPost(e, ok)
  \/ \E e \in Events, ok \in BOOLEAN : MaintainerScheduleCommand(e, ok)
  \/ \E e \in Events, ok \in BOOLEAN : MaintainerScheduleConfirmation(e, ok)
  \/ \E e \in Events, outcome \in {"ok", "not_a_pull_request", "error"},
        resp \in PullResponses \cup {NoPull} :
       ContributorFetch(e, outcome, resp)
  \/ \E e \in Events, ok \in BOOLEAN : ContributorSubmit(e, ok)
  \/ \E e \in Events, ok \in BOOLEAN : ContributorLog(e, ok)
  \/ \E e \in Events, ok \in BOOLEAN : ContributorPost(e, ok)
  \/ \E e \in Events, ok \in BOOLEAN : ContributorScheduleCommand(e, ok)
  \/ \E e \in Events, ok \in BOOLEAN : ContributorScheduleConfirmation(e, ok)

GrammarSpec == Init /\ [][GrammarNext]_vars

(***************************************************************************)
(* Observations used by the properties                                     *)
(***************************************************************************)
\* indices of the calls of operation op in the trace of handler h
CallsOf(h, op) == {i \in DOMAIN h.trace : h.trace[i].op = op}
\* those that returned
Returned(h, op) == {i \in CallsOf(h, op) : h.trace[i].ok}
\* ids of the comments handler h posted
PostedBy(h) == {h.trace[i].arg.id : i \in Returned(h, "createComment")}
\* jobs enqueued by the handler of event e, and jobs targeting comment c
JobsOf(e) == {j \in JobIds : jobs[j].event = e}
JobsFor(c) == {j \in JobIds : jobs[j].data.commentId = c}
\* the mutating call of a dispatch returned
Dispatched(h) ==
  Returned(h, "classifyIssue") # {} \/ Returned(h, "submitFeedback") # {}
Terminal(job) == job.state \in {"completed", "failed"}
\* nothing is running and nothing is left to run
Quiescent ==
  /\ \A e \in Events : handlers[e].pc \in {"idle", "done"}
  /\ \A j \in JobIds : Terminal(jobs[j])

(***************************************************************************)
(* C1. Every comment the system posts, and every command comment of a      *)
(* dispatched exchange, is eventually deleted when failures are transient. *)
(* Every run of the model has at most MaxFailures failing calls, so the    *)
(* claim says: once nothing is left to run, those comments are gone.       *)
(***************************************************************************)
C1_AllEphemeralDeleted ==
  Quiescent =>
    /\ \A c \in DOMAIN comments :
         comments[c].author = "bot" => ~comments[c].live
    /\ \A e \in Events :
         Dispatched(handlers[e]) => ~comments[handlers[e].commentId].live

(***************************************************************************)
(* C2. After a handler has finished, every comment it posted is targeted   *)
(* by exactly one enqueued cleanup job.                                    *)
(***************************************************************************)
C2_OneJobPerPostedComment ==
  \A e \in Events :
    handlers[e].pc = "done" =>
      \A c \in PostedBy(handlers[e]) : Cardinality(JobsFor(c)) = 1

(***************************************************************************)
(* C3. Whenever the mutating call of a dispatch succeeded, the finished    *)
(* handler has posted exactly one confirmation and enqueued exactly two    *)
(* cleanup jobs, one for the command comment and one for the confirmation, *)
(* each with a delay of 60,000 ms.                                         *)
(***************************************************************************)
C3_DispatchConfirmsAndSchedulesTwo ==
  \A e \in Events :
    LET h == handlers[e] IN
    (h.pc = "done" /\ Dispatched(h)) =>
      /\ Cardinality(PostedBy(h)) = 1
      /\ Cardinality(JobsOf(e)) = 2
      /\ \E j \in JobsOf(e) : jobs[j].data.commentId = h.commentId
      /\ \E j \in JobsOf(e) : jobs[j].data.commentId \in PostedBy(h)
      /\ \A j \in JobsOf(e) : jobs[j].delay = 60000

(***************************************************************************)
(* C4. A maintainer command of an actor whose permission level is not      *)
(* write, maintain or admin causes no classification call and no comment.  *)
(***************************************************************************)
C4_UnauthorizedMaintainerSilent ==
  \A e \in Events :
    LET h == handlers[e] IN
    (h.kind = "issue_comment.created"
       /\ h.perm \notin {"write", "maintain", "admin"}) =>
      /\ CallsOf(h, "classifyIssue") = {}
      /\ ~HasRateTrigger(h.body) => CallsOf(h, "createComment") = {}

C4_Witness ==
  \E e \in Events :
    LET h == handlers[e] IN
    /\ h.pc = "done"
    /\ h.body = B_diffType
    /\ h.perm = "triage"
    /\ CallsOf(h, "getCollaboratorPermissionLevel") # {}

(***************************************************************************)
(* C5. A rate command on a thread that is no pull request, on an unmerged  *)
(* pull request, or by someone other than the author causes no feedback    *)
(* call and no confirmation.                                               *)
(***************************************************************************)
C5_InvalidContextNoFeedback ==
  \A e \in Events :
    LET h == handlers[e] IN
    (h.kind = "issue_comment.created"
       /\ (h.fetch = "not_a_pull_request" \/ ~h.pr.merged \/ h.pr.user # h.sender)) =>
      /\ CallsOf(h, "submitFeedback") = {}
      /\ HasRateTrigger(h.body) => CallsOf(h, "createComment") = {}

C5_Witness ==
  \E e \in Events :
    LET h == handlers[e] IN
    /\ h.pc = "done"
    /\ h.body = B_rate4
    /\ h.fetch = "ok" /\ h.pr.merged /\ h.pr.user # h.sender

(***************************************************************************)
(* C6. A comment whose text does not contain /reposignal causes no         *)
(* external call, no message and no cleanup job.                           *)
(***************************************************************************)
C6_NoTriggerNoEffect ==
  \A e \in Events :
    LET h == handlers[e] IN
    (h.kind = "issue_comment.created" /\ ~Includes(h.body, W_trigger)) =>
      /\ h.trace = <<>>
      /\ h.pc = "done"
      /\ JobsOf(e) = {}
      /\ PostedBy(h) = {}

C6_Witness ==
  \E e \in Events :
    /\ handlers[e].kind = "issue_comment.created"
    /\ handlers[e].body = B_plain
    /\ handlers[e].pc = "done"


\* job ids a run can use: a handler enqueues at most two jobs
MaxJobs == 2 * MaxEvents

(***************************************************************************)
(* C7. A cleanup job whose deletion fails every time is attempted exactly  *)
(* three times, is then Failed for good, and is never attempted again. An  *)
(* attempt is a run of the processor: it begins with app.auth and makes at *)
(* most one deletion call.                                                 *)
(***************************************************************************)
C7_ThreeAttemptsThenFailed ==
  /\ [](\A j \in JobIds :
          /\ jobs[j].authCalls <= 3
          /\ jobs[j].deleteCalls <= jobs[j].authCalls
          /\ (jobs[j].state = "failed" /\ jobs[j].deleted = 0)
               => jobs[j].authCalls = 3
          /\ (jobs[j].authCalls = 3 /\ jobs[j].deleted = 0)
               => \/ jobs[j].state = "failed"
                  \/ jobs[j].state = "active" /\ jobs[j].step = "delete")
  /\ [][\A j \in JobIds : jobs[j].state = "failed" => jobs'[j] = jobs[j]]_vars

C7_Witness ==
  \E j \in JobIds :
    /\ jobs[j].state = "failed" /\ jobs[j].deleted = 0
    /\ jobs[j].authCalls = 3 /\ jobs[j].deleteCalls = 3

(***************************************************************************)
(* C8. As claimed: a job that fails until it is Failed has waited 5 s,     *)
(* 10 s and 20 s between its attempts.                                     *)
(***************************************************************************)
C8_Original ==
  \A j \in JobIds :
    jobs[j].state = "failed" => jobs[j].waits = <<5000, 10000, 20000>>

(***************************************************************************)
(* C8, amended. Three attempts are separated by two waits: a job that      *)
(* fails until it is Failed has waited 5 s and then 10 s, and no job ever  *)
(* waits a third time.                                                     *)
(***************************************************************************)
C8_BackoffDelays ==
  \A j \in JobIds :
    /\ Len(jobs[j].waits) <= 2
    /\ \A k \in DOMAIN jobs[j].waits : jobs[j].waits[k] = <<5000, 10000>>[k]
    /\ Len(jobs[j].waits) = IF Terminal(jobs[j]) THEN jobs[j].attemptsMade - 1
                            ELSE jobs[j].attemptsMade
    /\ jobs[j].state = "failed" => jobs[j].waits = <<5000, 10000>>
    /\ (jobs[j].state = "delayed" /\ jobs[j].waits # <<>>)
         => jobs[j].remaining <= jobs[j].waits[Len(jobs[j].waits)]

C8_Witness ==
  \E j \in JobIds :
    jobs[j].state = "failed" /\ jobs[j].deleted = 0
      /\ jobs[j].waits = <<5000, 10000>>

(***************************************************************************)
(* C9. Under fair scheduling every enqueued cleanup job reaches Completed  *)
(* or Failed and stays there; no step removes a job from the queue or      *)
(* retargets it.                                                           *)
(***************************************************************************)
C9_JobsTerminate ==
  /\ \A j \in 1..MaxJobs :
       (j \in JobIds) ~> (j \in JobIds /\ Terminal(jobs[j]))
  /\ [][\A j \in JobIds :
          /\ j \in DOMAIN jobs'
          /\ jobs'[j].data = jobs[j].data
          /\ Terminal(jobs[j]) => jobs'[j].state = jobs[j].state]_vars

C9_Witness ==
  \E j \in JobIds : jobs[j].state = "completed" /\ jobs[j].attemptsMade = 3

(***************************************************************************)
(* C10. No cleanup job is run by two executors at the same time.           *)
(***************************************************************************)
C10_OneExecutorPerJob ==
  \A j \in JobIds :
    /\ jobs[j].executors <= 1
    /\ jobs[j].executors = 1 <=> jobs[j].state = "active"

C10_Witness ==
  \E j, k \in JobIds :
    j # k /\ jobs[j].state = "active" /\ jobs[k].state = "active"

(***************************************************************************)
(* C11. A cleanup job added with delay d is not claimed by the worker, and *)
(* no deletion is attempted for it, before d has elapsed since it was      *)
(* added; and the step that adds the job returns to the handler at once,   *)
(* with the job still delayed and not yet attempted.                       *)
(***************************************************************************)
C11_NotBeforeDelay ==
  /\ [](\A j \in JobIds :
          /\ jobs[j].starts # <<>> => jobs[j].starts[1] >= jobs[j].delay
          /\ jobs[j].starts = <<>> =>
                /\ jobs[j].authCalls = 0 /\ jobs[j].deleteCalls = 0
                /\ jobs[j].state = "delayed"
          /\ (jobs[j].starts = <<>> /\ jobs[j].age < jobs[j].delay) =>
                ~ENABLED WorkerStart(j))
  /\ [][\A j \in DOMAIN jobs' :
          j \notin DOMAIN jobs =>
            LET e == jobs'[j].event IN
            /\ jobs'[j].state = "delayed"
            /\ jobs'[j].attemptsMade = 0
            /\ jobs'[j].starts = <<>>
            /\ jobs'[j].remaining = jobs'[j].delay
            /\ handlers[e].pc \in {"io_sched", "pr_sched", "mc_sched1",
                                    "mc_sched2", "cf_sched1", "cf_sched2"}
            /\ handlers'[e].pc # handlers[e].pc]_vars

C11_Witness ==
  \E j \in JobIds :
    /\ jobs[j].delay = 3600000
    /\ jobs[j].starts # <<>>
    /\ jobs[j].deleteCalls > 0
    /\ handlers[jobs[j].event].pc = "done"

(***************************************************************************)
(* C12. Whenever an issue-opened nudge has been posted, the finished       *)
(* handler has added a cleanup job for that nudge with a delay of 300,000  *)
(* ms; whenever a merge-feedback nudge has been posted, a cleanup job for  *)
(* it with a delay of 3,600,000 ms; also when the bot log write between    *)
(* the post and the scheduling fails.                                      *)
(***************************************************************************)
C12_NudgeAlwaysScheduled ==
  \A e \in Events :
    LET h == handlers[e] IN
    (h.pc = "done" /\ PostedBy(h) # {}) =>
      /\ h.kind = "issues.opened" =>
           \E j \in JobsOf(e) :
             jobs[j].data.commentId \in PostedBy(h) /\ jobs[j].delay = 300000
      /\ h.kind = "pull_request.closed" =>
           \E j \in JobsOf(e) :
             jobs[j].data.commentId \in PostedBy(h) /\ jobs[j].delay = 3600000

(***************************************************************************)
(* C13. Every log entry written with the contributor actor role has no     *)
(* actor id and no actor username, in the entry and in what is sent to the *)
(* backend, and every feedback submission consists of the pull-request id, *)
(* the repository id and the two ratings only: it has no actor field.      *)
(***************************************************************************)
C13_ContributorLogsAnonymous ==
  \A e \in Events :
    LET h == handlers[e] IN
    /\ \A i \in CallsOf(h, "writeLog") :
         LET entry == h.trace[i].arg.entry
             sent == h.trace[i].arg.sent IN
         entry.actorType = "contributor" =>
           /\ entry.actorGithubId = NoActor
           /\ entry.actorUsername = NoActor
           /\ DOMAIN sent \cap {"actorGithubId", "actorUsername", "actor"} = {}
           /\ DOMAIN entry.context = {"difficulty_rating", "responsiveness_rating"}
    /\ \A i \in CallsOf(h, "submitFeedback") :
         DOMAIN h.trace[i].arg =
           {"githubPrId", "githubRepoId", "difficultyRating", "responsivenessRating"}

C13_Witness ==
  \E e \in Events :
    LET h == handlers[e] IN
    /\ h.sender = 2
    /\ h.body = B_rateBoth
    /\ Returned(h, "submitFeedback") # {}
    /\ \E i \in Returned(h, "writeLog") :
         h.trace[i].arg.entry.actorType = "contributor"

\* the contributor-role log calls in the trace of handler h
ContributorLogs(h) ==
  {i \in CallsOf(h, "writeLog") : h.trace[i].arg.entry.actorType = "contributor"}
\* the ratings handler h submitted
Ratings(h) == <<h.difficultyRating, h.responsivenessRating>>

(***************************************************************************)
(* C14. The contributor log entry of an accepted rate command is a         *)
(* function of the repository and the ratings: any two accepted rate       *)
(* commands in the same repository with the same ratings write the same    *)
(* entry and send the same log body, whoever commented and whichever pull  *)
(* request the comment was on.                                             *)
(***************************************************************************)
C14_LogIndependentOfCommenter ==
  \A e1, e2 \in Events :
    LET h1 == handlers[e1]
        h2 == handlers[e2] IN
    \A i1 \in ContributorLogs(h1), i2 \in ContributorLogs(h2) :
      (h1.repo = h2.repo /\ Ratings(h1) = Ratings(h2)) =>
        h1.trace[i1].arg = h2.trace[i2].arg

C14_Witness ==
  \E e1, e2 \in Events :
    LET h1 == handlers[e1]
        h2 == handlers[e2] IN
    /\ h1.sender # h2.sender
    /\ h1.number # h2.number
    /\ h1.pr.id # h2.pr.id
    /\ Ratings(h1) = Ratings(h2)
    /\ Returned(h1, "submitFeedback") # {} /\ Returned(h2, "submitFeedback") # {}
    /\ ContributorLogs(h1) # {} /\ ContributorLogs(h2) # {}

(***************************************************************************)
(* C15. For a comment of an actor with write, maintain or admin permission *)
(* that holds a non-empty combination of difficulty, type and hide         *)
(* commands, the handler makes exactly one classification call; the call   *)
(* carries the difficulty, the issue type and the hide flag of the comment *)
(* and leaves the absent ones unset; when the call returns, exactly one    *)
(* confirmation is posted, and it lists exactly those changes, in the      *)
(* order difficulty, type, hidden.                                         *)
(***************************************************************************)
C15_OneCallExactFields ==
  \A e \in Events :
    LET h == handlers[e] IN
    (h.pc = "done" /\ h.kind = "issue_comment.created"
       /\ h.perm \in {"write", "maintain", "admin"}) =>
      \A d \in 0..5, t \in 0..6, hide \in BOOLEAN :
        (h.body = Combo(d, t, hide) /\ h.body # <<>>) =>
          LET wanted ==
                (IF d # 0 THEN <<<<"difficulty", d>>>> ELSE <<>>) \o
                (IF t # 0 THEN <<<<"type", IssueTypes[t]>>>> ELSE <<>>) \o
                (IF hide THEN <<<<"hidden from discovery">>>> ELSE <<>>) IN
          /\ Cardinality(CallsOf(h, "classifyIssue")) = 1
          /\ \A i \in CallsOf(h, "classifyIssue") :
               /\ h.trace[i].arg.difficulty = (IF d # 0 THEN d ELSE Null)
               /\ h.trace[i].arg.issueType = (IF t # 0 THEN IssueTypes[t] ELSE NoType)
               /\ h.trace[i].arg.hidden = hide
               /\ h.trace[i].arg.githubIssueId = IssueId(h.number)
               /\ h.trace[i].arg.githubRepoId = h.repo
               /\ h.trace[i].arg.actor.githubId = h.sender
          /\ Cardinality(CallsOf(h, "createComment")) =
               (IF Returned(h, "classifyIssue") # {} THEN 1 ELSE 0)
          /\ \A i \in CallsOf(h, "createComment") :
               h.trace[i].arg.body = [kind |-> "issue_updated", changes |-> wanted]

C15_Witness ==
  \E e \in Events :
    LET h == handlers[e] IN
    /\ h.pc = "done"
    /\ h.perm = "write"
    /\ h.body = Combo(3, 2, FALSE)
    /\ \E i \in Returned(h, "classifyIssue") :
         h.trace[i].arg.difficulty = 3 /\ h.trace[i].arg.issueType = W_bug
    /\ Returned(h, "createComment") # {}
    /\ Cardinality(JobsOf(e)) = 2

(***************************************************************************)
(* C16. For a rate command of the pull request's author on their own       *)
(* merged pull request, the handler fetches the pull request exactly once  *)
(* and makes exactly one feedback call; the call carries each rating the   *)
(* comment gives and null for each it does not give, keyed by the id of    *)
(* the pull request; when the call returns, exactly one contributor log    *)
(* write follows, with the same ratings.                                   *)
(***************************************************************************)
C16_OneFetchOneFeedback ==
  \A e \in Events :
    LET h == handlers[e]
        wanted == IF h.body = B_rateBoth THEN <<2, 5>> ELSE <<4, Null>> IN
    (h.pc = "done" /\ h.kind = "issue_comment.created"
       /\ h.body \in {B_rate4, B_rateBoth, B_rateHide}
       /\ h.fetch = "ok" /\ h.pr.merged /\ h.pr.user = h.sender) =>
      /\ Cardinality(CallsOf(h, "pulls.get")) = 1
      /\ CallsOf(h, "getCollaboratorPermissionLevel") = {}
      /\ Cardinality(CallsOf(h, "submitFeedback")) = 1
      /\ \A i \in CallsOf(h, "submitFeedback") :
           /\ h.trace[i].arg.difficultyRating = wanted[1]
           /\ h.trace[i].arg.responsivenessRating = wanted[2]
           /\ h.trace[i].arg.githubPrId = PullId(h.number)
           /\ h.trace[i].arg.githubRepoId = h.repo
      /\ Cardinality(ContributorLogs(h)) =
           (IF Returned(h, "submitFeedback") # {} THEN 1 ELSE 0)
      /\ \A i \in ContributorLogs(h) :
           h.trace[i].arg.entry.context =
             [difficulty_rating |-> wanted[1], responsiveness_rating |-> wanted[2]]

C16_Witness ==
  \E e \in Events :
    LET h == handlers[e] IN
    /\ h.pc = "done"
    /\ h.body = B_rate4
    /\ h.pr.merged /\ h.pr.user = h.sender
    /\ \E i \in Returned(h, "submitFeedback") :
         /\ h.trace[i].arg.difficultyRating = 4
         /\ h.trace[i].arg.responsivenessRating = Null
    /\ \E i \in ContributorLogs(h) :
         h.trace[i].ok /\ h.trace[i].arg.entry.actorGithubId = NoActor

(***************************************************************************)
(* C17. As claimed: when an actor without write, maintain or admin         *)
(* permission posts /reposignal hide, the handler makes no external call   *)
(* and posts no comment.                                                   *)
(***************************************************************************)
C17_Original ==
  \A e \in Events :
    LET h == handlers[e] IN
    (h.kind = "issue_comment.created" /\ h.body = B_hide
       /\ h.perm \in {"none", "read", "triage", "error"}) =>
      /\ h.trace = <<>>
      /\ PostedBy(h) = {}

(***************************************************************************)
(* C17, amended. When an actor without write, maintain or admin permission *)
(* (level none, read or triage, or a lookup that fails) posts              *)
(* /reposignal hide, the permission lookup is the one external call the    *)
(* handler makes: no classification call, no log write, no comment is      *)
(* posted, no cleanup job is added, and the command comment stays as it    *)
(* is.                                                                     *)
(***************************************************************************)
C17_NonCollaboratorHide ==
  \A e \in Events :
    LET h == handlers[e] IN
    (h.kind = "issue_comment.created" /\ h.body = B_hide
       /\ h.perm \in {"none", "read", "triage", "error"}) =>
      /\ h.pc = "done"
      /\ Len(h.trace) = 1
      /\ h.trace[1].op = "getCollaboratorPermissionLevel"
      /\ PostedBy(h) = {}
      /\ JobsOf(e) = {}
      /\ JobsFor(h.commentId) = {}
      /\ comments[h.commentId].live

C17_Witness ==
  \E e \in Events :
    LET h == handlers[e] IN
    /\ h.pc = "done"
    /\ h.body = B_hide
    /\ h.perm = "none"
    /\ isHideCommand(h.body)
    /\ Returned(h, "getCollaboratorPermissionLevel") # {}

\* the mutating call of a dispatch was made and threw
DispatchFailed(h) ==
  \E i \in CallsOf(h, "classifyIssue") \cup CallsOf(h, "submitFeedback") :
    ~h.trace[i].ok

(***************************************************************************)
(* C18. If classifyIssue or submitFeedback throws, the handler ends there: *)
(* the failed call is the last call it makes, no confirmation is posted,   *)
(* no audit log entry is written, no cleanup job is added, and the command *)
(* comment stays in the thread without a cleanup job.                      *)
(***************************************************************************)
C18_FailedDispatchAborts ==
  \A e \in Events :
    LET h == handlers[e] IN
    DispatchFailed(h) =>
      /\ h.pc = "done"
      /\ h.trace[Len(h.trace)].op \in {"classifyIssue", "submitFeedback"}
      /\ ~h.trace[Len(h.trace)].ok
      /\ CallsOf(h, "createComment") = {}
      /\ CallsOf(h, "writeLog") = {}
      /\ CallsOf(h, "scheduleCleanup") = {}
      /\ JobsOf(e) = {}
      /\ JobsFor(h.commentId) = {}
      /\ comments[h.commentId].live

C18_Witness ==
  \E e \in Events :
    LET h == handlers[e] IN
    /\ h.pc = "done"
    /\ h.body = B_diffType
    /\ h.perm = "admin"
    /\ \E i \in CallsOf(h, "classifyIssue") : ~h.trace[i].ok

\* the validator of handler h has decided Deny: the permission lookup
\* answered a level other than write, maintain and admin or failed, or the
\* pull request was not found, not merged or not the commenter's
Denied(h) ==
  \/ h.perm \in {"none", "read", "triage", "error"}
  \/ /\ h.fetch \in {"ok", "not_a_pull_request", "error"}
     /\ ~(h.fetch = "ok" /\ h.pr.merged /\ h.pr.user = h.sender)

(***************************************************************************)
(* C19. Every Deny of the maintainer policy and of the contributor policy  *)
(* is silent: the handler ends with the validator's lookup as its only     *)
(* call, so it posts no comment, writes no audit log entry and adds no     *)
(* cleanup job; and the step that decides Deny leaves the comments and the *)
(* cleanup queue as they are.                                              *)
(***************************************************************************)
C19_DenyIsSilent ==
  /\ [](\A e \in Events :
          LET h == handlers[e] IN
          Denied(h) =>
            /\ h.pc = "done"
            /\ CallsOf(h, "createComment") = {}
            /\ CallsOf(h, "writeLog") = {}
            /\ CallsOf(h, "classifyIssue") = {}
            /\ CallsOf(h, "submitFeedback") = {}
            /\ CallsOf(h, "scheduleCleanup") = {}
            /\ JobsOf(e) = {}
            /\ Len(h.trace) = 1)
  /\ [][\A e \in Events :
          (Denied(handlers'[e]) /\ ~Denied(handlers[e])) =>
            jobs' = jobs /\ comments' = comments]_vars

C19_Witness ==
  \E e \in Events :
    LET h == handlers[e] IN
    /\ h.pc = "done"
    /\ h.body = B_diff3
    /\ h.perm = "error"
    /\ \E i \in CallsOf(h, "getCollaboratorPermissionLevel") : ~h.trace[i].ok

\* the rate commands whose feedback submission for pull request p was accepted
AcceptedFor(p) ==
  {e \in Events :
     \E i \in Returned(handlers[e], "submitFeedback") :
       handlers[e].trace[i].arg.githubPrId = p}

(***************************************************************************)
(* C20. As claimed: over the rate commands of a run at most one feedback   *)
(* submission per pull request is accepted, and every other rate command   *)
(* on that pull request ends without a confirmation comment, without a     *)
(* contributor log entry and without a cleanup job.                        *)
(***************************************************************************)
C20_FeedbackOncePerPull ==
  \A n \in PullNumbers :
    /\ Cardinality(AcceptedFor(PullId(n))) <= 1
    /\ \A e \in Events :
         LET h == handlers[e] IN
         (h.pc = "done" /\ h.pr.id = PullId(n)
            /\ AcceptedFor(PullId(n)) # {} /\ e \notin AcceptedFor(PullId(n))) =>
           /\ CallsOf(h, "createComment") = {}
           /\ ContributorLogs(h) = {}
           /\ JobsOf(e) = {}

(***************************************************************************)
(* C21. The maintainer validation fails closed: when the permission lookup *)
(* throws, the handler ends with that failed lookup as its only call, so   *)
(* no classification call is made, no comment is posted and no cleanup job *)
(* is added; and a handled comment looks the permission up at most once.   *)
(***************************************************************************)
C21_LookupFailureDenies ==
  \A e \in Events :
    LET h == handlers[e]
        lookups == CallsOf(h, "getCollaboratorPermissionLevel") IN
    /\ Cardinality(lookups) <= 1
    /\ (\E i \in lookups : ~h.trace[i].ok) =>
         /\ h.pc = "done"
         /\ h.perm = "error"
         /\ CallsOf(h, "classifyIssue") = {}
         /\ CallsOf(h, "createComment") = {}
         /\ CallsOf(h, "scheduleCleanup") = {}
         /\ JobsOf(e) = {}
         /\ JobsFor(h.commentId) = {}
    /\ (h.pc \in {"mc_classify", "mc_post", "mc_sched1", "mc_sched2"}) =>
         \E i \in lookups : h.trace[i].ok

C21_Witness ==
  \E e \in Events :
    LET h == handlers[e] IN
    /\ h.pc = "done"
    /\ h.body = B_diffType
    /\ \E i \in CallsOf(h, "getCollaboratorPermissionLevel") : ~h.trace[i].ok
    /\ failures = 1

(***************************************************************************)
(* C22. Every feedback call is keyed by the id the platform assigned to    *)
(* the fetched pull request (pr.id), which is the id the validator         *)
(* returned; it is never the number of the thread nor the id of the issue  *)
(* in the webhook payload.                                                 *)
(***************************************************************************)
C22_FeedbackKeyedByPullId ==
  \A e \in Events :
    LET h == handlers[e] IN
    \A i \in CallsOf(h, "submitFeedback") :
      /\ h.fetch = "ok"
      /\ h.trace[i].arg.githubPrId = h.pr.id
      /\ h.trace[i].arg.githubPrId = PullId(h.number)
      /\ h.trace[i].arg.githubPrId # h.number
      /\ h.trace[i].arg.githubPrId # IssueId(h.number)

C22_Witness ==
  \E e \in Events :
    LET h == handlers[e] IN
    /\ h.number = 8
    /\ \E i \in Returned(h, "submitFeedback") : h.trace[i].arg.githubPrId = PullId(8)

\* the handler of a comment ran, or runs, handleContributorFeedback
RoutedToContributor(h) ==
  h.pc \in {"cf_get", "cf_submit", "cf_log", "cf_post", "cf_sched1", "cf_sched2"}
    \/ h.fetch # "none"
\* the handler of a comment ran, or runs, handleMaintainerCommand
RoutedToMaintainer(h) ==
  h.pc \in {"mc_perm", "mc_classify", "mc_post", "mc_sched1", "mc_sched2"}
    \/ h.perm # "unknown"

(***************************************************************************)
(* C23. A command whose keywords are written in upper case or capitalised  *)
(* is routed and parsed as its lower-case form: a rate command goes to the *)
(* contributor handler and submits the rating it names, a difficulty, type *)
(* or hide command goes to the maintainer handler and classifies with the  *)
(* field it names (the type name in lower case).                           *)
(***************************************************************************)
C23_KeywordsCaseInsensitive ==
  \A e \in Events :
    LET h == handlers[e] IN
    \A style \in Styles, cmd \in GrammarCommands :
      (h.kind = "issue_comment.created" /\ h.body = CasedBody(style, cmd)) =>
        IF cmd.op \in RateOps
        THEN /\ RoutedToContributor(h) \/ h.pc = "done"
             /\ ~RoutedToMaintainer(h)
             /\ \A i \in CallsOf(h, "submitFeedback") :
                  /\ h.trace[i].arg.difficultyRating =
                       (IF cmd.op = "rate_difficulty" THEN cmd.value ELSE Null)
                  /\ h.trace[i].arg.responsivenessRating =
                       (IF cmd.op = "rate_responsiveness" THEN cmd.value ELSE Null)
             /\ (h.pc = "done" /\ h.fetch = "ok" /\ h.pr.merged
                   /\ h.pr.user = h.sender) => CallsOf(h, "submitFeedback") # {}
        ELSE /\ RoutedToMaintainer(h) \/ h.pc = "done"
             /\ ~RoutedToContributor(h)
             /\ \A i \in CallsOf(h, "classifyIssue") :
                  /\ h.trace[i].arg.difficulty =
                       (IF cmd.op = "difficulty" THEN cmd.value ELSE Null)
                  /\ h.trace[i].arg.issueType =
                       (IF cmd.op = "type" THEN IssueTypes[cmd.value] ELSE NoType)
                  /\ h.trace[i].arg.hidden = (cmd.op = "hide")
             /\ (h.pc = "done" /\ h.perm \in {"write", "maintain", "admin"})
                  => CallsOf(h, "classifyIssue") # {}

\* the number a digit string denotes
NumValue(digits) == ParseDigits(digits, 1, Len(digits) + 1)

(***************************************************************************)
(* C24. A difficulty or rating command yields its value N only when its    *)
(* numeric argument N is in 1..5: for an argument outside 1..5 the command *)
(* is no match, so no classification and no feedback call is made for it;  *)
(* for an argument inside, the call carries exactly N.                     *)
(***************************************************************************)
C24_ArgumentInRange ==
  \A e \in Events :
    LET h == handlers[e] IN
    \A op \in NumOps, digits \in NumArgs :
      (h.kind = "issue_comment.created" /\ h.body = NumBody(op, digits)) =>
        LET n == NumValue(digits) IN
        /\ \A i \in CallsOf(h, "classifyIssue") :
             /\ op = "difficulty"
             /\ n \in 1..5
             /\ h.trace[i].arg.difficulty = n
        /\ \A i \in CallsOf(h, "submitFeedback") :
             /\ op \in RateOps
             /\ n \in 1..5
             /\ h.trace[i].arg.difficultyRating =
                  (IF op = "rate_difficulty" THEN n ELSE Null)
             /\ h.trace[i].arg.responsivenessRating =
                  (IF op = "rate_responsiveness" THEN n ELSE Null)

\* the sets of the queue a job can be held in
QueueStates == {"delayed", "active", "completed", "failed"}

(***************************************************************************)
(* C25. A cleanup job is held by the queue for as long as the comment it   *)
(* targets exists: while the target has not been deleted the job is in one *)
(* of the queue's sets, and no step removes it from the queue or points it *)
(* at another comment. (The job is added without removeOnComplete and      *)
(* removeOnFail: also an exhausted job stays, in the failed set.)          *)
(***************************************************************************)
C25_JobOutlivesTarget ==
  /\ [](\A j \in JobIds :
          comments[jobs[j].data.commentId].live => jobs[j].state \in QueueStates)
  /\ [][\A j \in DOMAIN jobs :
          comments[jobs[j].data.commentId].live =>
            /\ j \in DOMAIN jobs'
            /\ jobs'[j].data = jobs[j].data
            /\ jobs'[j].state \in QueueStates]_vars

C25_Witness ==
  \E j \in JobIds :
    /\ jobs[j].state = "failed"
    /\ jobs[j].attemptsMade = 3
    /\ comments[jobs[j].data.commentId].live

(***************************************************************************)
(* C26. In the handling of a command the side effects come in one order:   *)
(* a confirmation is posted only after classifyIssue or submitFeedback     *)
(* has returned, a cleanup job is added only after the confirmation has    *)
(* been posted, and a call that fails is the last call of the handler.     *)
(***************************************************************************)
C26_DispatchOrder ==
  \A e \in Events :
    LET h == handlers[e] IN
    h.kind = "issue_comment.created" =>
      /\ \A i \in CallsOf(h, "createComment") :
           \E k \in 1..(i - 1) :
             h.trace[k].op \in {"classifyIssue", "submitFeedback"} /\ h.trace[k].ok
      /\ \A i \in CallsOf(h, "scheduleCleanup") :
           \E k \in 1..(i - 1) : h.trace[k].op = "createComment" /\ h.trace[k].ok
      /\ \A i \in DOMAIN h.trace :
           ~h.trace[i].ok => (i = Len(h.trace) /\ h.pc = "done")
      /\ JobsOf(e) # {} => PostedBy(h) # {}
      /\ PostedBy(h) # {} => Dispatched(h)

C26_Witness ==
  \E e \in Events :
    LET h == handlers[e] IN
    /\ h.pc = "done"
    /\ Len(h.trace) = 5
    /\ h.trace[2].op = "classifyIssue" /\ h.trace[2].ok
    /\ h.trace[3].op = "createComment" /\ h.trace[3].ok
    /\ h.trace[4].op = "scheduleCleanup" /\ h.trace[4].ok
    /\ h.trace[5].op = "scheduleCleanup" /\ h.trace[5].ok

(***************************************************************************)
(* C27. As claimed: once the deletion call of a cleanup job has succeeded  *)
(* the job only writes its log entry and is Completed with exactly one     *)
(* entry; it is never queued again and its comment is never deleted a      *)
(* second time, also when the log write fails.                             *)
(***************************************************************************)
C27_DeletionCompletesJob ==
  \A j \in JobIds :
    jobs[j].deleted > 0 =>
      /\ \/ jobs[j].state = "active" /\ jobs[j].step = "log" /\ jobs[j].logged = 0
         \/ jobs[j].state = "completed" /\ jobs[j].logged = 1
      /\ jobs[j].deleted = 1

(***************************************************************************)
(* C28. A cleanup job is added as delayed (Pending) and from there only    *)
(* moves delayed -> active, active -> completed, active -> delayed again   *)
(* (Retrying) after a failed attempt that leaves fewer than 3 attempts     *)
(* made, and active -> failed after the failed 3rd attempt; completed and  *)
(* failed jobs never change.                                               *)
(***************************************************************************)
C28_JobLifecycle ==
  /\ [](\A j \in JobIds :
          /\ jobs[j].state \in QueueStates
          /\ jobs[j].attemptsMade <= Attempts
          /\ jobs[j].state \in {"delayed", "active"} => jobs[j].attemptsMade < Attempts
          /\ jobs[j].state = "failed" => jobs[j].attemptsMade = Attempts)
  /\ [][/\ \A j \in DOMAIN jobs' \ JobIds :
             jobs'[j].state = "delayed" /\ jobs'[j].attemptsMade = 0
        /\ \A j \in JobIds :
             LET a == jobs[j]
                 b == jobs'[j] IN
             /\ Terminal(a) => b = a
             /\ b.state # a.state =>
                  \/ /\ a.state = "delayed" /\ b.state = "active"
                     /\ b.attemptsMade = a.attemptsMade
                  \/ /\ a.state = "active" /\ b.state = "completed"
                     /\ b.attemptsMade = a.attemptsMade + 1
                  \/ /\ a.state = "active" /\ b.state = "delayed"
                     /\ b.attemptsMade = a.attemptsMade + 1
                     /\ b.attemptsMade < Attempts
                  \/ /\ a.state = "active" /\ b.state = "failed"
                     /\ b.attemptsMade = a.attemptsMade + 1
                     /\ b.attemptsMade = Attempts
             /\ b.state = a.state => b.attemptsMade = a.attemptsMade]_vars

C28_Witness ==
  \E j \in JobIds :
    /\ jobs[j].state = "active" /\ jobs[j].step = "delete"
    /\ jobs[j].attemptsMade = 2 /\ Len(jobs[j].waits) = 2

(***************************************************************************)
(* C29. At most 5 cleanup jobs are being processed at any moment, however  *)
(* many jobs are due: a due job is claimed only while fewer than 5 are.    *)
(***************************************************************************)
C29_AtMostFiveRunning ==
  /\ [](Cardinality(Active) <= Concurrency)
  /\ [][\A j \in JobIds :
          (jobs[j].state = "delayed" /\ jobs'[j].state = "active")
            => Cardinality(Active) < Concurrency]_vars

C29_Witness ==
  /\ Cardinality(Active) = Concurrency
  /\ \E j \in JobIds : Eligible(jobs[j]) /\ jobs[j].attemptsMade = 0

(***************************************************************************)
(* C30. As claimed: a handler in which an external call has failed has     *)
(* returned, has posted no comment after the failure, and has left no      *)
(* comment of the bot in the thread.                                       *)
(***************************************************************************)
C30_FailureLeavesNoComment ==
  \A e \in Events :
    LET h == handlers[e] IN
    \A i \in DOMAIN h.trace :
      ~h.trace[i].ok =>
        /\ h.pc = "done"
        /\ \A k \in CallsOf(h, "createComment") : k <= i
        /\ \A c \in PostedBy(h) : ~comments[c].live

\* handler h ran a command of an authorized actor that carries a classification
Authorized(h) ==
  /\ h.kind = "issue_comment.created"
  /\ h.perm \in MaintainerLevels
  /\ \/ parseDifficultyCommand(h.body) # Null
     \/ parseTypeCommand(h.body) # NoType
     \/ isHideCommand(h.body)
\* handler h has returned and none of its calls failed
Succeeded(h) == h.pc = "done" /\ \A i \in DOMAIN h.trace : h.trace[i].ok

(***************************************************************************)
(* C31. Maintainer commands are not deduplicated: every command of an      *)
(* authorized actor makes its own classifyIssue call with its own fields,  *)
(* whatever earlier commands did, and k such commands whose calls all      *)
(* succeed leave k confirmations and 2k cleanup jobs.                      *)
(***************************************************************************)
C31_NoLocalDeduplication ==
  /\ \A e \in Events :
       LET h == handlers[e] IN
       Authorized(h) =>
         /\ h.pc # "mc_classify" =>
              /\ Cardinality(CallsOf(h, "classifyIssue")) = 1
              /\ \A i \in CallsOf(h, "classifyIssue") : h.trace[i].arg = ClassifyArgs(h)
         /\ Succeeded(h) =>
              /\ Cardinality(PostedBy(h)) = 1
              /\ Cardinality(JobsOf(e)) = 2
  /\ LET S == {e \in Events : Authorized(handlers[e]) /\ Succeeded(handlers[e])} IN
     /\ Cardinality(UNION {PostedBy(handlers[e]) : e \in S}) = Cardinality(S)
     /\ Cardinality(UNION {JobsOf(e) : e \in S}) = 2 * Cardinality(S)

C31_Witness ==
  \E e1, e2 \in Events :
    /\ e1 # e2
    /\ Authorized(handlers[e1]) /\ Succeeded(handlers[e1])
    /\ Authorized(handlers[e2]) /\ Succeeded(handlers[e2])
    /\ handlers[e1].body = B_diff3 /\ handlers[e2].body = B_diff3
    /\ handlers[e1].sender = handlers[e2].sender
    /\ handlers[e1].number = handlers[e2].number
    /\ Cardinality(JobIds) = 4

(***************************************************************************)
(* C32. A comment with the trigger token is handled by exactly one of the  *)
(* two handlers: a comment with a rate command never causes a permission   *)
(* lookup or a classifyIssue call, also when it carries a difficulty, type *)
(* or hide command, and any other command comment never causes a           *)
(* pull-request fetch or a submitFeedback call.                            *)
(***************************************************************************)
C32_ExactlyOnePolicy ==
  \A e \in Events :
    LET h == handlers[e] IN
    (h.kind = "issue_comment.created" /\ Includes(h.body, W_trigger)) =>
      /\ RoutedToContributor(h) # RoutedToMaintainer(h)
      /\ Includes(h.body, W_trigger \o SP \o W_rate) =>
           /\ RoutedToContributor(h)
           /\ CallsOf(h, "getCollaboratorPermissionLevel") = {}
           /\ CallsOf(h, "classifyIssue") = {}
      /\ ~Includes(h.body, W_trigger \o SP \o W_rate) =>
           /\ RoutedToMaintainer(h)
           /\ CallsOf(h, "pulls.get") = {}
           /\ CallsOf(h, "submitFeedback") = {}

C32_Witness ==
  \E e \in Events :
    LET h == handlers[e] IN
    /\ h.body = B_rateHide
    /\ isHideCommand(h.body)
    /\ h.pc = "done"
    /\ Returned(h, "submitFeedback") # {}
    /\ Cardinality(JobsOf(e)) = 2

(***************************************************************************)
(* C33. As claimed: the body of every log write sent to the backend holds  *)
(* the actor role chosen by the logging operation, next to the action, the *)
(* entity reference and the context of the entry.                          *)
(***************************************************************************)
C33_LogCarriesActorRole ==
  \A e \in Events :
    LET h == handlers[e] IN
    \A i \in CallsOf(h, "writeLog") :
      LET entry == h.trace[i].arg.entry
          sent == h.trace[i].arg.sent IN
      /\ entry.actorType \in {"system", "bot", "contributor"}
      /\ sent.action = entry.action
      /\ sent.entityType = entry.entityType
      /\ sent.entityId = entry.entityId
      /\ sent.context = entry.context
      /\ "actorType" \in DOMAIN sent
      /\ sent.actorType = entry.actorType

\* handler h ran a rate command of the author of the merged pull request
ValidFeedback(h) ==
  /\ h.kind = "issue_comment.created"
  /\ h.fetch = "ok" /\ h.pr.merged /\ h.pr.user = h.sender
  /\ parseDifficultyRating(h.body) # Null \/ parseResponsivenessRating(h.body) # Null

(***************************************************************************)
(* C34. Handlers interleaved at their awaited calls share no state: a step *)
(* of one handler changes no other handler, every job of a handler targets *)
(* one of its own two comments, a handler whose calls succeed makes the    *)
(* one mutating call, posts the one confirmation and adds the two jobs of  *)
(* its own command, and a feedback call that the backend answers is        *)
(* followed by the log write, whatever other handlers have done.           *)
(***************************************************************************)
C34_HandlersIndependent ==
  /\ [](\A e \in Events :
          LET h == handlers[e] IN
          h.kind = "issue_comment.created" =>
            /\ \A j \in JobsOf(e) : jobs[j].data.commentId \in {h.commentId, h.posted}
            /\ \A c \in PostedBy(h) : c = h.posted /\ comments[c].number = h.number
            /\ \A i \in CallsOf(h, "classifyIssue") : h.trace[i].arg = ClassifyArgs(h)
            /\ \A i \in CallsOf(h, "submitFeedback") : h.trace[i].arg = FeedbackArgs(h)
            /\ (Succeeded(h) /\ (Authorized(h) \/ ValidFeedback(h))) =>
                 /\ Cardinality(CallsOf(h, "classifyIssue")
                                  \cup CallsOf(h, "submitFeedback")) = 1
                 /\ Cardinality(PostedBy(h)) = 1
                 /\ {jobs[j].data.commentId : j \in JobsOf(e)} = {h.commentId, h.posted}
                 /\ Cardinality(JobsOf(e)) = 2)
  /\ [][\A e \in Events :
          /\ handlers'[e] # handlers[e] =>
               \A o \in Events \ {e} : handlers'[o] = handlers[o]
          /\ (handlers[e].pc = "cf_submit" /\ handlers'[e].pc # "cf_submit"
                /\ failures' = failures) => handlers'[e].pc = "cf_log"]_vars

C34_Witness ==
  \E e1, e2 \in Events :
    /\ handlers[e1].pc = "mc_sched2" /\ Authorized(handlers[e1])
    /\ handlers[e2].pc = "cf_post" /\ ValidFeedback(handlers[e2])
    /\ handlers[e1].number = handlers[e2].number
    /\ handlers[e1].posted > handlers[e2].commentId

\* the comment yields no Command of the grammar: an unknown word after the
\* trigger, a missing argument, or a numeric argument that is not in 1..5
NoCommand(h) ==
  h.body \in {B_tags, B_rateNone}
               \cup {NumBody(op, digits) : op \in NumOps,
                      digits \in {d \in NumArgs : NumValue(d) \notin 1..5}}

(***************************************************************************)
(* C35. As claimed: a comment with the trigger token that yields no        *)
(* Command (unknown word, missing argument, argument outside 1..5) causes  *)
(* no classifyIssue and no submitFeedback call, no comment, no log write   *)
(* and no cleanup job, for every permission level of its author and on     *)
(* every thread.                                                           *)
(***************************************************************************)
C35_NoCommandNoEffect ==
  \A e \in Events :
    LET h == handlers[e] IN
    (h.kind = "issue_comment.created" /\ Includes(h.body, W_trigger) /\ NoCommand(h)) =>
      /\ CallsOf(h, "classifyIssue") = {}
      /\ CallsOf(h, "submitFeedback") = {}
      /\ CallsOf(h, "createComment") = {}
      /\ CallsOf(h, "writeLog") = {}
      /\ CallsOf(h, "scheduleCleanup") = {}
      /\ PostedBy(h) = {}
      /\ JobsOf(e) = {}
      /\ JobsFor(h.commentId) = {}


(***************************************************************************)
(* C36. The handler of pull_request.closed for a pull request that was not *)
(* merged makes no call at all: no nudge, no log write, no cleanup job, no *)
(* issue deletion. For a merged one it posts the feedback nudge exactly    *)
(* once: one createComment call, and one nudge when that call returns.     *)
(***************************************************************************)
C36_NudgeOnlyWhenMerged ==
  \A e \in Events :
    LET h == handlers[e] IN
    h.kind = "pull_request.closed" =>
      IF ~h.merged
      THEN /\ h.pc = "done"
           /\ h.trace = <<>>
           /\ PostedBy(h) = {}
           /\ JobsOf(e) = {}
      ELSE /\ h.pc # "pr_post" =>
                /\ Cardinality(CallsOf(h, "createComment")) = 1
                /\ h.trace[1].op = "createComment"
                /\ h.trace[1].arg.body = NudgeBody("feedback_nudge")
                /\ h.trace[1].arg.issue_number = h.number
                /\ h.trace[1].ok => Cardinality(PostedBy(h)) = 1
           /\ \A c \in PostedBy(h) :
                comments[c].kind = "feedback_nudge" /\ comments[c].number = h.number

C36_Witness ==
  \E e \in Events :
    LET h == handlers[e] IN
    /\ h.kind = "pull_request.closed"
    /\ ~h.merged
    /\ h.headRepo /\ h.body = P_fixes
    /\ h.pc = "done"

(***************************************************************************)
(* C37. As claimed: the handler of a comment that the bot itself posted    *)
(* makes no classifyIssue and no submitFeedback call and posts no comment. *)
(***************************************************************************)
C37_NoSelfReaction ==
  \A e \in Events :
    LET h == handlers[e] IN
    (h.kind = "issue_comment.created" /\ comments[h.commentId].author = "bot") =>
      /\ CallsOf(h, "classifyIssue") = {}
      /\ CallsOf(h, "submitFeedback") = {}
      /\ CallsOf(h, "createComment") = {}

(***************************************************************************)
(* C38. As claimed: a repository_added entry for a repository is written   *)
(* only after the addRepository call for that repository has returned, and *)
(* after a failed syncInstallation call no repository is added and no log  *)
(* entry is written.                                                       *)
(***************************************************************************)
C38_LogOnlyAfterAdd ==
  \A e \in Events :
    LET h == handlers[e] IN
    h.kind \in {"installation.created", "installation_repositories.added"} =>
      /\ \A i \in Returned(h, "writeLog") :
           h.trace[i].arg.entry.action = "repository_added" =>
             \E k \in 1..(i - 1) :
               /\ h.trace[k].op = "addRepository"
               /\ h.trace[k].ok
               /\ <<"repo", h.trace[k].arg.githubRepoId>> = h.trace[i].arg.entry.entityId
      /\ (h.trace # <<>> /\ ~h.trace[1].ok) =>
           /\ h.pc = "done"
           /\ Len(h.trace) = 1

====
